---- MODULE Spec2Model ----
(***************************************************************************)
(* FlightLedger: the event-sourced ticket lifecycle store, the coupon      *)
(* matcher, the settlement saga engine and the DAG runner, modelled from   *)
(* the in-memory backend (FLIGHTLEDGER_STORAGE_BACKEND = memory).          *)
(*                                                                         *)
(* Conventions.  A handler is an operator that maps the repositories it    *)
(* reads to the repositories it leaves behind (plus the exception it       *)
(* raised, if any) and an action that applies the operator.  Python's None *)
(* is the model value None.  A datetime is an instant [sec, usec] in UTC   *)
(* (every producer of the repository calls datetime.now(timezone.utc));    *)
(* its isoformat() string is modelled by IsoFormat and strings are         *)
(* compared as Python compares them, character by character.              *)
(***************************************************************************)
EXTENDS Integers, Sequences, FiniteSets, TLC

VARIABLES
    ticket_events,          \* _MEMORY_STATE.ticket_events: ticket -> rows
    ticket_current_state,   \* _MEMORY_STATE.ticket_current_state: ticket -> <<row>>
    appended,               \* per ticket, the event_ids in the order append stored them
    settlements,            \* _MEMORY_STATE.settlements: id -> row
    settlement_saga_log,    \* _MEMORY_STATE.settlement_saga_log
    uuids,                  \* how many settlement ids uuid4 has handed out
    audit_store,            \* SettlementEngine.audit_store is set (not None)
    audit_log,              \* _MEMORY_STATE.audit_log
    clock,                  \* the wall clock, in ticks
    dag,                    \* the DAG last handed to DAGRunner(...), <<>> before
    runner,                 \* the DAGRunner that construction left, <<>> if none
    dag_runs,               \* _MEMORY_STATE.dag_runs: id -> row
    task_runs,              \* _MEMORY_STATE.task_runs, in insertion order
    run_uuids,              \* how many dag_run ids uuid4 has handed out
    invoked,                \* the task functions the last run() called, in order
    coupon_matches,         \* _MEMORY_STATE.coupon_matches, in insertion order
    match_result,           \* the MatchResult the last run_matching returned
    agings,                 \* age_suspense calls since the last run_matching or reset
    recon_results,          \* _MEMORY_STATE.recon_results, in insertion order
    recon_summary,          \* the ReconSummary the last run_full_recon returned
    classified,             \* the last classify_break call: its inputs and its result
    logged,                 \* the AuditRecords AuditStore.log returned, in call order
    cleared,                \* how many of them were logged before the last AuditStore.reset
    returned,               \* the last audit query and the list it returned
    callers,                \* per concurrent caller of store.append: where it is and its locals
    _seeded,                \* FlightLedgerRuntime._seeded
    _seed_lock,             \* the thread that holds FlightLedgerRuntime._seed_lock, or None
    _last_recon_summary,    \* FlightLedgerRuntime._last_recon_summary
    threads,                \* per thread in the runtime: its call, where it is, what it read
    sinks,                  \* FanoutBus._buses: per sink, when it raises and its topics
    offered,                \* the events handed to the bus's publish, in order
    topics,                 \* InMemoryBus.topics of a bus that is published to directly
    files,                  \* the text of the file of each source channel
    snapshot_bus,           \* snapshot_bus.topics of the last ingest_demo
    channels,               \* the channels list the last ingest_demo built
    result                  \* how the last call ended: what it did or what it raised

storeVars == <<ticket_events, ticket_current_state, appended>>

settlementVars == <<settlements, settlement_saga_log, uuids, audit_store>>

dagVars == <<dag, runner, dag_runs, task_runs, run_uuids, invoked>>

matchVars == <<coupon_matches, match_result, agings>>

reconVars == <<recon_results, recon_summary, classified>>

auditVars == <<logged, cleared, returned>>

\* the variables of the audit store's callers, of concurrent callers, of the
\* runtime, of the bus and of the ingest loop
callerVars == <<callers>>

runtimeVars == <<_seeded, _seed_lock, _last_recon_summary, threads>>

busVars == <<sinks, offered, topics>>

ingestVars == <<files, snapshot_bus, channels>>

otherVars == <<auditVars, callerVars, runtimeVars, busVars, ingestVars>>

vars == <<storeVars, settlementVars, dagVars, matchVars, reconVars, otherVars, audit_log, clock, result>>

\* Python's None, where the other values are strings
None == "None"

\* coupon_number: int | None = None (a coupon number is at least 1)
NoCoupon == 0

\* gross_amount: Decimal | None = None (amounts are counted in thousandths)
NoAmount == -1

\* a str that is None
NoStr == <<>>

----------------------------------------------------------------------------
(* Sequences                                                               *)

Range(s) == {s[i] : i \in 1..Len(s)}

RECURSIVE SeqOfSet(_)
\* some enumeration of a finite set (iteration order of a dict whose order
\* no reader of the model depends on)
SeqOfSet(S) ==
    IF S = {} THEN <<>>
    ELSE LET x == CHOOSE y \in S : TRUE IN <<x>> \o SeqOfSet(S \ {x})

----------------------------------------------------------------------------
(* datetime.isoformat() and str comparison                                 *)

Instant(s, u) == [sec |-> s, usec |-> u]

\* a datetime that is None
NoInstant == Instant(-1, 0)

\* the character that follows the seconds in an isoformat() string
CharRank(c) == CASE c = "+" -> 43 [] c = "." -> 46

\* datetime.isoformat() of a UTC datetime: "...:SS+00:00" when microsecond
\* is 0, "...:SS.ffffff+00:00" otherwise; the fixed-width fields before the
\* seconds compare like the number sec.
IsoFormat(t) ==
    IF t.usec = 0 THEN <<t.sec, CharRank("+")>>
    ELSE <<t.sec, CharRank("."), t.usec, CharRank("+")>>

\* datetime.fromisoformat of such a string
FromIso(s) == IF s[2] = CharRank("+") THEN Instant(s[1], 0) ELSE Instant(s[1], s[3])

RECURSIVE StrLeq(_, _)
\* Python's a <= b on str
StrLeq(a, b) ==
    IF a = <<>> THEN TRUE
    ELSE IF b = <<>> THEN FALSE
    ELSE IF Head(a) < Head(b) THEN TRUE
    ELSE IF Head(a) > Head(b) THEN FALSE
    ELSE StrLeq(Tail(a), Tail(b))

\* datetime <= datetime
InstantLeq(t, u) == t.sec < u.sec \/ (t.sec = u.sec /\ t.usec <= u.usec)

----------------------------------------------------------------------------
(* Canonical events                                                        *)

Tickets == {"T1", "T2"}

CouponNumbers == {1, 2}

CanonicalEventType ==
    {"ticket_issued", "ticket_reissued", "ticket_voided", "coupon_flown",
     "refund_requested", "settlement_due", "booking_modified", "interline_claim"}

CanonicalEvent(id, at, type, ticket, coupon, gross) ==
    [event_id |-> id, occurred_at |-> at, event_type |-> type,
     ticket_number |-> ticket, coupon_number |-> coupon, gross_amount |-> gross]

\* event.model_dump(mode="json"): the datetime becomes its ISO string
model_dump(event) == [event EXCEPT !.occurred_at = IsoFormat(event.occurred_at)]

\* CanonicalEvent.model_validate(payload)
model_validate(payload) == [payload EXCEPT !.occurred_at = FromIso(payload.occurred_at)]

_event_from_row(row) == model_validate(row.payload)

----------------------------------------------------------------------------
(* TicketEventRepository (memory backend)                                  *)

\* _MEMORY_STATE.ticket_events.get(ticket_number, [])
history_of(te, ticket_number) == te[ticket_number]

\* mutant of next_sequence: the length of the history, not the next number
next_sequence_zero_based(te, ticket_number) == Len(te[ticket_number])

next_sequence(te, ticket_number) == Len(history_of(te, ticket_number)) + 1

\* the rows that carry event_id, over every ticket
rows_with_event_id(te, event_id) ==
    {row \in UNION {Range(te[t]) : t \in DOMAIN te} : row.payload.event_id = event_id}

\* mutant of find_by_event_id: looks at the latest row of each ticket only
find_by_event_id_latest_row(te, event_id) ==
    IF \E t \in DOMAIN te :
           te[t] # <<>> /\ te[t][Len(te[t])].payload.event_id = event_id
    THEN <<CHOOSE row \in rows_with_event_id(te, event_id) : TRUE>>
    ELSE <<>>

\* the first row found as <<row>>, or None as <<>>
find_by_event_id(te, event_id) ==
    IF rows_with_event_id(te, event_id) = {} THEN <<>>
    ELSE <<CHOOSE row \in rows_with_event_id(te, event_id) : TRUE>>

RECURSIVE insert_by_sequence(_, _)
\* one step of the stable sort on event_sequence: row goes after every row
\* whose event_sequence is not greater
insert_by_sequence(sorted, row) ==
    IF sorted = <<>> THEN <<row>>
    ELSE IF sorted[Len(sorted)].event_sequence <= row.event_sequence
         THEN Append(sorted, row)
         ELSE Append(insert_by_sequence(SubSeq(sorted, 1, Len(sorted) - 1), row),
                     sorted[Len(sorted)])

RECURSIVE sort_by_sequence(_)
\* history.sort(key=lambda item: item["event_sequence"]), a stable sort
sort_by_sequence(rows) ==
    IF rows = <<>> THEN <<>>
    ELSE insert_by_sequence(sort_by_sequence(SubSeq(rows, 1, Len(rows) - 1)),
                            rows[Len(rows)])

\* TicketEventRepository.insert without the check for a duplicate
\* (ticket_number, event_sequence)
insert_event_unchecked(te, row) ==
    [ticket_events |-> [te EXCEPT ![row.ticket_number] = sort_by_sequence(Append(@, row))],
     raised |-> None]

\* TicketEventRepository.insert: [ticket_events, raised]
insert_event(te, row) ==
    IF \E existing \in Range(history_of(te, row.ticket_number)) :
           existing.event_sequence = row.event_sequence
    THEN [ticket_events |-> te, raised |-> "ValueError"]
    ELSE [ticket_events |->
              [te EXCEPT ![row.ticket_number] = sort_by_sequence(Append(@, row))],
          raised |-> None]

get_by_ticket(te, ticket_number) == history_of(te, ticket_number)

RECURSIVE rows_until_later(_, _)
rows_until_later(rows, cutoff) ==
    IF rows = <<>> \/ ~StrLeq(Head(rows).occurred_at, cutoff) THEN <<>>
    ELSE <<Head(rows)>> \o rows_until_later(Tail(rows), cutoff)

\* mutant of get_by_ticket_at: stops at the first row later than as_of
get_by_ticket_at_prefix(te, ticket_number, as_of) ==
    rows_until_later(te[ticket_number], IsoFormat(as_of))

\* rows of the ticket with row["occurred_at"] <= as_of.isoformat(), both str
get_by_ticket_at(te, ticket_number, as_of) ==
    SelectSeq(history_of(te, ticket_number),
              LAMBDA row : StrLeq(row.occurred_at, IsoFormat(as_of)))

----------------------------------------------------------------------------
(* TicketLifecycleStore                                                    *)

Statuses == {"unknown", "issued", "reissued", "voided", "flown", "refunded", "modified"}

\* TicketState(ticket_number=...)
TicketState(ticket_number) ==
    [ticket_number |-> ticket_number, status |-> "unknown", current_amount |-> NoAmount,
     coupon_statuses |-> [c \in CouponNumbers |-> None], last_modified |-> NoInstant,
     event_count |-> 0, last_event_type |-> None]

\* the body of the loop of _replay with booking_modified setting the status
\* whatever it was
apply_event_modified_overwrites(state, event) ==
    LET counted == [state EXCEPT
            !.event_count = @ + 1,
            !.last_event_type = event.event_type,
            !.last_modified = event.occurred_at,
            !.current_amount =
                IF event.gross_amount # NoAmount THEN event.gross_amount ELSE @]
    IN  CASE event.event_type = "ticket_issued" -> [counted EXCEPT !.status = "issued"]
          [] event.event_type = "ticket_reissued" -> [counted EXCEPT !.status = "reissued"]
          [] event.event_type = "ticket_voided" -> [counted EXCEPT !.status = "voided"]
          [] event.event_type = "coupon_flown" -> [counted EXCEPT !.status = "flown"]
          [] event.event_type = "refund_requested" -> [counted EXCEPT !.status = "refunded"]
          [] event.event_type = "booking_modified" -> [counted EXCEPT !.status = "modified"]
          [] OTHER -> counted

\* the body of the loop of _replay, for one event
apply_event(state, event) ==
    LET counted == [state EXCEPT
            !.event_count = @ + 1,
            !.last_event_type = event.event_type,
            !.last_modified = event.occurred_at,
            !.current_amount =
                IF event.gross_amount # NoAmount THEN event.gross_amount ELSE @]
        issued == IF event.coupon_number # NoCoupon
                     /\ event.event_type \in {"ticket_issued", "ticket_reissued"}
                  THEN [counted EXCEPT !.coupon_statuses[event.coupon_number] = "issued"]
                  ELSE counted
    IN  CASE event.event_type = "ticket_issued" -> [issued EXCEPT !.status = "issued"]
          [] event.event_type = "ticket_reissued" -> [issued EXCEPT !.status = "reissued"]
          [] event.event_type = "ticket_voided" -> [issued EXCEPT !.status = "voided"]
          [] event.event_type = "coupon_flown" ->
                 IF event.coupon_number # NoCoupon
                 THEN [issued EXCEPT !.status = "flown",
                                     !.coupon_statuses[event.coupon_number] = "flown"]
                 ELSE [issued EXCEPT !.status = "flown"]
          [] event.event_type = "refund_requested" -> [issued EXCEPT !.status = "refunded"]
          [] event.event_type = "booking_modified" /\ issued.status = "unknown" ->
                 [issued EXCEPT !.status = "modified"]
          [] OTHER -> issued

RECURSIVE _replay(_, _)
\* TicketLifecycleStore._replay: the events of rows applied in list order
_replay(rows, ticket_number) ==
    IF rows = <<>> THEN TicketState(ticket_number)
    ELSE apply_event(_replay(SubSeq(rows, 1, Len(rows) - 1), ticket_number),
                     _event_from_row(rows[Len(rows)]))

\* str(key) of a coupon number, and int(key) back
CouponKey(c) == CASE c = 1 -> "1" [] c = 2 -> "2"

CouponOfKey(k) == CHOOSE c \in CouponNumbers : CouponKey(c) = k

\* TicketLifecycleStore._to_state_row
_to_state_row(state) ==
    [ticket_number |-> state.ticket_number,
     status |-> state.status,
     gross_amount |-> state.current_amount,
     event_count |-> state.event_count,
     last_event_type |-> state.last_event_type,
     last_modified |->
         IF state.last_modified # NoInstant THEN IsoFormat(state.last_modified) ELSE NoStr,
     coupon_statuses |->
         [k \in {CouponKey(c) : c \in CouponNumbers} |->
              state.coupon_statuses[CouponOfKey(k)]]]

\* _state_from_row
_state_from_row(row) ==
    [ticket_number |-> row.ticket_number,
     status |-> row.status,
     current_amount |-> row.gross_amount,
     coupon_statuses |-> [c \in CouponNumbers |-> row.coupon_statuses[CouponKey(c)]],
     last_modified |->
         IF row.last_modified # NoStr THEN FromIso(row.last_modified) ELSE NoInstant,
     event_count |-> row.event_count,
     last_event_type |-> row.last_event_type]

\* the row TicketLifecycleStore.append builds; "id" is a uuid4, fresh per row
event_row(event, sequence) ==
    [id |-> <<event.ticket_number, sequence>>,
     ticket_number |-> event.ticket_number,
     event_sequence |-> sequence,
     event_type |-> event.event_type,
     occurred_at |-> IsoFormat(event.occurred_at),
     payload |-> model_dump(event)]

\* mutant of append: the snapshot is replayed from the history read before
\* the insert
append_stale_snapshot(te, tcs, event) ==
    IF find_by_event_id(te, event.event_id) # <<>>
    THEN [ticket_events |-> te, ticket_current_state |-> tcs, result |-> "duplicate"]
    ELSE LET inserted ==
                 insert_event(te, event_row(event, next_sequence(te, event.ticket_number)))
             current_state ==
                 _replay(get_by_ticket(te, event.ticket_number), event.ticket_number)
         IN  [ticket_events |-> inserted.ticket_events,
              ticket_current_state |->
                  [tcs EXCEPT ![event.ticket_number] = <<_to_state_row(current_state)>>],
              result |-> "appended"]

\* TicketLifecycleStore.append: [ticket_events, ticket_current_state, result]
append(te, tcs, event) ==
    IF find_by_event_id(te, event.event_id) # <<>>
    THEN [ticket_events |-> te, ticket_current_state |-> tcs, result |-> "duplicate"]
    ELSE LET inserted ==
                 insert_event(te, event_row(event, next_sequence(te, event.ticket_number)))
             current_state ==
                 _replay(get_by_ticket(inserted.ticket_events, event.ticket_number),
                         event.ticket_number)
         IN  IF inserted.raised # None
             THEN [ticket_events |-> te, ticket_current_state |-> tcs,
                   result |-> inserted.raised]
             ELSE [ticket_events |-> inserted.ticket_events,
                   ticket_current_state |->
                       [tcs EXCEPT ![event.ticket_number] = <<_to_state_row(current_state)>>],
                   result |-> "appended"]

\* TicketLifecycleStore.get_history, with each row's event_sequence kept
get_history(te, ticket_number) ==
    [i \in 1..Len(get_by_ticket(te, ticket_number)) |->
        _event_from_row(get_by_ticket(te, ticket_number)[i])]

\* TicketLifecycleStore.get_current_state
get_current_state(te, tcs, ticket_number) ==
    IF tcs[ticket_number] # <<>>
    THEN _state_from_row(tcs[ticket_number][1])
    ELSE _replay(get_by_ticket(te, ticket_number), ticket_number)

\* TicketLifecycleStore.get_state_at
get_state_at(te, ticket_number, as_of) ==
    _replay(get_by_ticket_at(te, ticket_number, as_of), ticket_number)

----------------------------------------------------------------------------
(* The wall clock and the logs sorted on timestamps                        *)

\* ticks of the clock in one second
TicksPerSecond == 2

\* datetime.now(timezone.utc) when the clock shows tick
Now(tick) == Instant(tick \div TicksPerSecond, tick % TicksPerSecond)

RECURSIVE insert_by_timestamp(_, _)
\* one step of the stable sort on "timestamp": row goes after every row
\* whose timestamp string is not greater
insert_by_timestamp(sorted, row) ==
    IF sorted = <<>> THEN <<row>>
    ELSE IF StrLeq(sorted[Len(sorted)].timestamp, row.timestamp)
         THEN Append(sorted, row)
         ELSE Append(insert_by_timestamp(SubSeq(sorted, 1, Len(sorted) - 1), row),
                     sorted[Len(sorted)])

RECURSIVE sort_by_timestamp(_)
\* log.sort(key=lambda item: item["timestamp"]), a stable sort
sort_by_timestamp(rows) ==
    IF rows = <<>> THEN <<>>
    ELSE insert_by_timestamp(sort_by_timestamp(SubSeq(rows, 1, Len(rows) - 1)),
                             rows[Len(rows)])

----------------------------------------------------------------------------
(* AuditStore                                                              *)

\* AuditRepository.insert
audit_insert(log, row) == sort_by_timestamp(Append(log, row))

\* AuditStore.log as the settlement engine calls it
audit_log_call(log, action, component, output_reference, detail, now) ==
    audit_insert(log,
        [timestamp |-> IsoFormat(now), action |-> action, component |-> component,
         ticket_number |-> None, output_reference |-> output_reference,
         detail |-> detail])

\* AuditRepository.get_by_output_reference
get_by_output_reference(log, output_reference) ==
    SelectSeq(log, LAMBDA row : row.output_reference = output_reference)

\* AuditRecord(**stored): the dataclass has exactly the fields of the row
AuditRecord(row) ==
    [id |-> row.id, timestamp |-> row.timestamp, action |-> row.action,
     component |-> row.component, ticket_number |-> row.ticket_number,
     input_event_ids |-> row.input_event_ids,
     output_reference |-> row.output_reference, detail |-> row.detail,
     raw_source_hash |-> row.raw_source_hash]

\* AuditRepository.insert that drops the rows of the same ticket first
audit_insert_replacing(log, row) ==
    sort_by_timestamp(Append(SelectSeq(log, LAMBDA r : r.ticket_number # row.ticket_number), row))

\* AuditRepository.insert that puts the row in front of the log
audit_insert_in_front(log, row) == <<row>> \o log

\* AuditRepository.insert on a row that has an id (AuditStore.log gives one)
AuditRepository_insert(log, row) == sort_by_timestamp(Append(log, row))

\* AuditStore.log(action, component, ticket_number, input_event_ids,
\* output_reference, detail, raw_source_hash): id is what uuid4 returned, now
\* what datetime.now returned; the log it leaves and the record it returns
AuditStore_log(log, id, now, action, component, ticket_number, input_event_ids, output_reference, detail, raw_source_hash) ==
    LET row == [id |-> id, timestamp |-> IsoFormat(now), action |-> action,
                component |-> component, ticket_number |-> ticket_number,
                input_event_ids |-> input_event_ids,
                output_reference |-> output_reference, detail |-> detail,
                raw_source_hash |-> raw_source_hash]
    IN  [audit_log |-> AuditRepository_insert(log, row), record |-> AuditRecord(row)]

\* AuditRepository.reset
AuditRepository_reset(log) == <<>>

\* AuditRepository.get_by_ticket
AuditRepository_get_by_ticket(log, ticket_number) ==
    SelectSeq(log, LAMBDA row : row.ticket_number = ticket_number)

\* AuditStore.get_history
AuditStore_get_history(log, ticket_number) ==
    LET rows == AuditRepository_get_by_ticket(log, ticket_number)
    IN  [i \in 1..Len(rows) |-> AuditRecord(rows[i])]

\* AuditStore.get_lineage
AuditStore_get_lineage(log, output_reference) ==
    LET rows == get_by_output_reference(log, output_reference)
    IN  [i \in 1..Len(rows) |-> AuditRecord(rows[i])]

----------------------------------------------------------------------------
(* The bus: topic routing, InMemoryBus and FanoutBus                       *)

\* EVENT_TOPIC_MAP
EVENT_TOPIC_MAP(event_type) ==
    CASE event_type = "ticket_issued" -> "ticket.issued"
      [] event_type = "ticket_reissued" -> "ticket.issued"
      [] event_type = "ticket_voided" -> "ticket.issued"
      [] event_type = "coupon_flown" -> "coupon.flown"
      [] event_type = "refund_requested" -> "refund.requested"
      [] event_type = "settlement_due" -> "settlement.due"
      [] event_type = "booking_modified" -> "booking.modified"
      [] event_type = "interline_claim" -> "settlement.due"

Topics == {EVENT_TOPIC_MAP(event_type) : event_type \in CanonicalEventType}

\* InMemoryBus(): topics is a defaultdict(list)
InMemoryBus == [t \in Topics |-> <<>>]

\* mutant of InMemoryBus_publish: the event is put in front of its topic's list
InMemoryBus_publish_in_front(lists, event) ==
    [lists EXCEPT ![EVENT_TOPIC_MAP(event.event_type)] = <<event>> \o @]

\* InMemoryBus.publish
InMemoryBus_publish(lists, event) ==
    [lists EXCEPT ![EVENT_TOPIC_MAP(event.event_type)] = Append(@, event)]

RECURSIVE InMemoryBus_publish_many(_, _)
InMemoryBus_publish_many(lists, events) ==
    IF events = <<>> THEN lists
    ELSE InMemoryBus_publish_many(InMemoryBus_publish(lists, Head(events)), Tail(events))

\* a sink of the fan-out: a bus that keeps what it is handed in topics, and
\* whose publish raises for the events of raises_on
Sink(raises_on) == [raises_on |-> raises_on, topics |-> InMemoryBus]

\* bus.publish(event) on a sink: [bus, raised]
Sink_publish(bus, event) ==
    IF event.event_id \in bus.raises_on
    THEN [bus |-> bus, raised |-> "Exception"]
    ELSE [bus |-> [bus EXCEPT !.topics = InMemoryBus_publish(@, event)], raised |-> None]

RECURSIVE FanoutBus_publish(_, _)
\* FanoutBus.publish: for bus in self._buses: bus.publish(event); the first
\* exception leaves the loop; [buses, raised]
FanoutBus_publish(buses, event) ==
    IF buses = <<>> THEN [buses |-> <<>>, raised |-> None]
    ELSE LET first == Sink_publish(Head(buses), event)
         IN  IF first.raised # None
             THEN [buses |-> buses, raised |-> first.raised]
             ELSE LET rest == FanoutBus_publish(Tail(buses), event)
                  IN  [buses |-> <<first.bus>> \o rest.buses, raised |-> rest.raised]

RECURSIVE FanoutBus_publish_many(_, _)
\* FanoutBus.publish_many: for event in events: self.publish(event)
FanoutBus_publish_many(buses, events) ==
    IF events = <<>> THEN [buses |-> buses, raised |-> None]
    ELSE LET first == FanoutBus_publish(buses, Head(events))
         IN  IF first.raised # None THEN first
             ELSE FanoutBus_publish_many(first.buses, Tail(events))

----------------------------------------------------------------------------
(* The source adapters and the ingest loop (pipeline.py)                   *)

\* a key that a record does not have
Missing == "Missing"

\* the text of a file: readable as CSV, JSON or XML into records, or not
Payload(records) == [readable |-> TRUE, records |-> records]

Malformed == [readable |-> FALSE, records |-> <<>>]

\* SOURCE_CHANNELS, in order: channel_id and adapter class
SOURCE_CHANNELS ==
    <<[channel_id |-> "reservation_pss", adapter_cls |-> "PssCsvAdapter"],
      [channel_id |-> "departure_control_dcs", adapter_cls |-> "DcsStreamAdapter"],
      [channel_id |-> "gds_agent_settlement", adapter_cls |-> "GdsXmlAdapter"],
      [channel_id |-> "ota_partners", adapter_cls |-> "OtaWebhookAdapter"],
      [channel_id |-> "interline_partners", adapter_cls |-> "InterlineRestAdapter"]>>

\* the event_type an adapter gives a record: PSS reads the column (KeyError
\* without it), OTA reads the field or defaults to booking_modified, the
\* others have a fixed type
raw_event_type(adapter_cls, record) ==
    CASE adapter_cls = "PssCsvAdapter" -> record.event_type
      [] adapter_cls = "DcsStreamAdapter" -> "coupon_flown"
      [] adapter_cls = "GdsXmlAdapter" -> "settlement_due"
      [] adapter_cls = "OtaWebhookAdapter" ->
             IF record.event_type = Missing THEN "booking_modified" ELSE record.event_type
      [] adapter_cls = "InterlineRestAdapter" -> "interline_claim"

\* what parsing one record raises, None if nothing: CanonicalEventType(raw)
\* raises ValueError for an unknown name, record["..."] KeyError for a key
\* that is not there; GDS reads findtext("ticket_number", "") instead
record_raises(adapter_cls, record) ==
    IF raw_event_type(adapter_cls, record) = Missing THEN "KeyError"
    ELSE IF raw_event_type(adapter_cls, record) \notin CanonicalEventType THEN "ValueError"
    ELSE IF record.ticket_number = Missing /\ adapter_cls # "GdsXmlAdapter" THEN "KeyError"
    ELSE None

\* the CanonicalEvent an adapter builds from the record at place i
record_event(adapter_cls, record, i) ==
    CanonicalEvent(<<adapter_cls, i>>, Instant(1, 0), raw_event_type(adapter_cls, record),
                   IF record.ticket_number = Missing THEN "" ELSE record.ticket_number,
                   NoCoupon, NoAmount)

\* adapter.parse(payload): [events, raised]; a payload that cannot be read
\* raises in csv, json.loads or ET.fromstring, a record that cannot be
\* converted raises in the loop, and either way no list is returned
parse(adapter_cls, payload) ==
    LET records == payload.records
    IN  IF ~payload.readable THEN [events |-> <<>>, raised |-> "ParseError"]
        ELSE IF \E i \in 1..Len(records) : record_raises(adapter_cls, records[i]) # None
        THEN [events |-> <<>>,
              raised |-> record_raises(adapter_cls,
                             records[CHOOSE i \in 1..Len(records) :
                                         /\ record_raises(adapter_cls, records[i]) # None
                                         /\ \A j \in 1..(i - 1) :
                                                record_raises(adapter_cls, records[j]) = None])]
        ELSE [events |-> [i \in 1..Len(records) |-> record_event(adapter_cls, records[i], i)],
              raised |-> None]

\* the dict ingest_demo appends to channels for a source
channel_of(source, payload, events) ==
    [channel_id |-> source.channel_id, record_count |-> Len(events),
     raw_payload |-> payload]

RECURSIVE ingest_sources(_, _, _, _)
\* the loop of ingest_demo from source i on; an exception of parse leaves
\* the loop and the function: [topics, channels, raised]
ingest_sources(payloads, i, bus, chans) ==
    IF i > Len(SOURCE_CHANNELS) THEN [topics |-> bus, channels |-> chans, raised |-> None]
    ELSE LET source == SOURCE_CHANNELS[i]
             parsed == parse(source.adapter_cls, payloads[i])
         IN  IF parsed.raised # None
             THEN [topics |-> bus, channels |-> chans, raised |-> parsed.raised]
             ELSE ingest_sources(payloads, i + 1,
                                 InMemoryBus_publish_many(bus, parsed.events),
                                 Append(chans, channel_of(source, payloads[i], parsed.events)))

\* ingest_demo(data_dir) with FLIGHTLEDGER_BUS_BACKEND = memory: the bus is
\* the snapshot bus
ingest_demo(payloads) == ingest_sources(payloads, 1, InMemoryBus, <<>>)

----------------------------------------------------------------------------
(* SettlementRepository and SettlementEngine                               *)

\* float(amount) and Decimal(str(float)): exact on the amounts used here,
\* which have fewer than 15 significant digits
float_of(amount) == amount

decimal_of(value) == value

\* the detail dict of a transition
Detail(our_amount, their_amount, reason) ==
    [our_amount |-> our_amount, their_amount |-> their_amount, reason |-> reason]

NoDetail == Detail(NoAmount, NoAmount, None)

\* Decimal("0.01"), in thousandths
ConfirmTolerance == 10

RECURSIVE insert_before_ties(_, _)
insert_before_ties(sorted, row) ==
    IF sorted = <<>> THEN <<row>>
    ELSE IF StrLeq(sorted[Len(sorted)].timestamp, row.timestamp)
            /\ sorted[Len(sorted)].timestamp # row.timestamp
         THEN Append(sorted, row)
         ELSE Append(insert_before_ties(SubSeq(sorted, 1, Len(sorted) - 1), row),
                     sorted[Len(sorted)])

\* mutant of insert_saga: the new row goes before the rows of the same
\* timestamp (a sort that is not stable)
insert_saga_before_ties(saga, row) == insert_before_ties(saga, row)

\* SettlementRepository.insert_saga
insert_saga(saga, row) == sort_by_timestamp(Append(saga, row))

\* SettlementRepository.get_saga_log / SettlementEngine.get_saga
get_saga(saga, settlement_id) ==
    SelectSeq(saga, LAMBDA row : row.settlement_id = settlement_id)

\* mutant of update_status: the new status is not written
update_status_not_written(rows, settlement_id, new_status) == rows

\* SettlementRepository.update_status
update_status(rows, settlement_id, new_status) ==
    [rows EXCEPT ![settlement_id].status = new_status]

\* f"settlement_{action}"
settlement_action(action) ==
    CASE action = "calculate" -> "settlement_calculate"
      [] action = "validate" -> "settlement_validate"
      [] action = "submit" -> "settlement_submit"
      [] action = "confirm" -> "settlement_confirm"
      [] action = "reconcile" -> "settlement_reconcile"
      [] action = "compensate" -> "settlement_compensate"

\* mutant of _log_transition: the audit record is logged without its
\* output_reference
_log_transition_no_reference(saga, audit, settlement_id, from_status, to_status, action, detail, t1, t2) ==
    [settlement_saga_log |->
         insert_saga(saga,
             [settlement_id |-> settlement_id, from_status |-> from_status,
              to_status |-> to_status, action |-> action, detail |-> detail,
              timestamp |-> IsoFormat(t1)]),
     audit_log |->
         IF audit_store
         THEN audit_log_call(audit, settlement_action(action), "settlement_engine", None,
                  [from_status |-> from_status, to_status |-> to_status, detail |-> detail],
                  t2)
         ELSE audit]

\* SettlementEngine._log_transition: [settlement_saga_log, audit_log]; t1 and
\* t2 are the two readings of the clock, the second taken by the audit store
\* when the engine holds one
_log_transition(saga, audit, settlement_id, from_status, to_status, action, detail, t1, t2) ==
    [settlement_saga_log |->
         insert_saga(saga,
             [settlement_id |-> settlement_id, from_status |-> from_status,
              to_status |-> to_status, action |-> action, detail |-> detail,
              timestamp |-> IsoFormat(t1)]),
     audit_log |->
         IF audit_store
         THEN audit_log_call(audit, settlement_action(action), "settlement_engine",
                  settlement_id,
                  [from_status |-> from_status, to_status |-> to_status, detail |-> detail],
                  t2)
         ELSE audit]

\* the repositories a call leaves behind, and how it ended
Ended(rows, logs, how) ==
    [settlements |-> rows, settlement_saga_log |-> logs.settlement_saga_log,
     audit_log |-> logs.audit_log, result |-> how]

Refused(rows, saga, audit, how) ==
    [settlements |-> rows, settlement_saga_log |-> saga, audit_log |-> audit,
     result |-> how]

\* SettlementEngine.calculate; new_id is the uuid4 of the row
calculate(rows, saga, audit, new_id, ticket_number, counterparty, our_amount, t1, t2) ==
    LET row == [id |-> new_id, ticket_number |-> ticket_number,
                counterparty |-> counterparty,
                counterparty_type |-> "interline_partner",
                our_amount |-> float_of(our_amount), their_amount |-> NoAmount,
                currency |-> "USD", status |-> "calculated"]
    IN  Ended([id \in DOMAIN rows \cup {new_id} |-> IF id = new_id THEN row ELSE rows[id]],
              _log_transition(saga, audit, new_id, "none", "calculated", "calculate",
                              Detail(our_amount, NoAmount, None), t1, t2),
              "ok")

\* SettlementEngine.validate without the check of our_amount
validate_any_amount(rows, saga, audit, settlement_id, t1, t2) ==
    IF settlement_id \notin DOMAIN rows THEN Refused(rows, saga, audit, "KeyError")
    ELSE IF rows[settlement_id].status # "calculated"
    THEN Refused(rows, saga, audit, "InvalidTransition")
    ELSE Ended(update_status(rows, settlement_id, "validated"),
               _log_transition(saga, audit, settlement_id, "calculated", "validated",
                               "validate", NoDetail, t1, t2),
               "ok")

\* SettlementEngine.validate
validate(rows, saga, audit, settlement_id, t1, t2) ==
    IF settlement_id \notin DOMAIN rows THEN Refused(rows, saga, audit, "KeyError")
    ELSE IF rows[settlement_id].status # "calculated"
    THEN Refused(rows, saga, audit, "InvalidTransition")
    ELSE IF decimal_of(rows[settlement_id].our_amount) <= 0
    THEN Refused(rows, saga, audit, "unchanged")
    ELSE Ended(update_status(rows, settlement_id, "validated"),
               _log_transition(saga, audit, settlement_id, "calculated", "validated",
                               "validate", NoDetail, t1, t2),
               "ok")

\* SettlementEngine.submit
submit(rows, saga, audit, settlement_id, t1, t2) ==
    IF settlement_id \notin DOMAIN rows THEN Refused(rows, saga, audit, "KeyError")
    ELSE IF rows[settlement_id].status # "validated"
    THEN Refused(rows, saga, audit, "InvalidTransition")
    ELSE Ended(update_status(rows, settlement_id, "submitted"),
               _log_transition(saga, audit, settlement_id, "validated", "submitted",
                               "submit", NoDetail, t1, t2),
               "ok")

\* |a - b|
AbsDiff(a, b) == IF a >= b THEN a - b ELSE b - a

\* mutant of confirm: the difference is compared without its absolute value
confirm_signed_difference(rows, saga, audit, settlement_id, their_amount, t1, t2) ==
    IF settlement_id \notin DOMAIN rows THEN Refused(rows, saga, audit, "KeyError")
    ELSE IF rows[settlement_id].status # "submitted"
    THEN Refused(rows, saga, audit, "InvalidTransition")
    ELSE LET our_amount == decimal_of(rows[settlement_id].our_amount)
             status == IF our_amount - their_amount < ConfirmTolerance
                       THEN "confirmed" ELSE "disputed"
         IN  Ended([update_status(rows, settlement_id, status)
                        EXCEPT ![settlement_id].their_amount = float_of(their_amount)],
                   _log_transition(saga, audit, settlement_id, "submitted", status,
                                   "confirm", Detail(our_amount, their_amount, None),
                                   t1, t2),
                   "ok")

\* mutant of confirm: a disputed settlement is confirmed anew
confirm_disputed_again(rows, saga, audit, settlement_id, their_amount, t1, t2) ==
    IF settlement_id \notin DOMAIN rows THEN Refused(rows, saga, audit, "KeyError")
    ELSE IF rows[settlement_id].status \notin {"submitted", "disputed"}
    THEN Refused(rows, saga, audit, "InvalidTransition")
    ELSE LET our_amount == decimal_of(rows[settlement_id].our_amount)
             status == IF AbsDiff(our_amount, their_amount) < ConfirmTolerance
                       THEN "confirmed" ELSE "disputed"
         IN  Ended([update_status(rows, settlement_id, status)
                        EXCEPT ![settlement_id].their_amount = float_of(their_amount)],
                   _log_transition(saga, audit, settlement_id, rows[settlement_id].status,
                                   status, "confirm", Detail(our_amount, their_amount, None),
                                   t1, t2),
                   "ok")

\* SettlementEngine.confirm
confirm(rows, saga, audit, settlement_id, their_amount, t1, t2) ==
    IF settlement_id \notin DOMAIN rows THEN Refused(rows, saga, audit, "KeyError")
    ELSE IF rows[settlement_id].status # "submitted"
    THEN Refused(rows, saga, audit, "InvalidTransition")
    ELSE LET our_amount == decimal_of(rows[settlement_id].our_amount)
             status == IF AbsDiff(our_amount, their_amount) < ConfirmTolerance
                       THEN "confirmed" ELSE "disputed"
         IN  Ended([update_status(rows, settlement_id, status)
                        EXCEPT ![settlement_id].their_amount = float_of(their_amount)],
                   _log_transition(saga, audit, settlement_id, "submitted", status,
                                   "confirm", Detail(our_amount, their_amount, None),
                                   t1, t2),
                   "ok")

\* mutant of reconcile: a disputed settlement is reconciled as well
reconcile_disputed_too(rows, saga, audit, settlement_id, t1, t2) ==
    IF settlement_id \notin DOMAIN rows THEN Refused(rows, saga, audit, "KeyError")
    ELSE IF rows[settlement_id].status \notin {"confirmed", "disputed"}
    THEN Refused(rows, saga, audit, "InvalidTransition")
    ELSE Ended(update_status(rows, settlement_id, "reconciled"),
               _log_transition(saga, audit, settlement_id, rows[settlement_id].status,
                               "reconciled", "reconcile", NoDetail, t1, t2),
               "ok")

\* SettlementEngine.reconcile
reconcile(rows, saga, audit, settlement_id, t1, t2) ==
    IF settlement_id \notin DOMAIN rows THEN Refused(rows, saga, audit, "KeyError")
    ELSE IF rows[settlement_id].status # "confirmed"
    THEN Refused(rows, saga, audit, "InvalidTransition")
    ELSE Ended(update_status(rows, settlement_id, "reconciled"),
               _log_transition(saga, audit, settlement_id, "confirmed", "reconciled",
                               "reconcile", NoDetail, t1, t2),
               "ok")

\* mutant of compensate: a compensated settlement is compensated again
compensate_again(rows, saga, audit, settlement_id, reason, t1, t2) ==
    IF settlement_id \notin DOMAIN rows THEN Refused(rows, saga, audit, "KeyError")
    ELSE Ended(update_status(rows, settlement_id, "compensated"),
               _log_transition(saga, audit, settlement_id, rows[settlement_id].status,
                               "compensated", "compensate",
                               Detail(NoAmount, NoAmount, reason), t1, t2),
               "ok")

\* SettlementEngine.compensate
compensate(rows, saga, audit, settlement_id, reason, t1, t2) ==
    IF settlement_id \notin DOMAIN rows THEN Refused(rows, saga, audit, "KeyError")
    ELSE IF rows[settlement_id].status = "compensated"
    THEN Refused(rows, saga, audit, "unchanged")
    ELSE Ended(update_status(rows, settlement_id, "compensated"),
               _log_transition(saga, audit, settlement_id, rows[settlement_id].status,
                               "compensated", "compensate",
                               Detail(NoAmount, NoAmount, reason), t1, t2),
               "ok")

----------------------------------------------------------------------------
(* The DAG runner (orchestrator/dag.py), constructed as DAGRunner(dag):     *)
(* no audit store, the repositories of the memory backend                   *)

\* Task(name, depends_on, fn): whether fn raises is decided when it is called
Task(name, depends_on) == [name |-> name, depends_on |-> depends_on]

DAG(name, tasks) == [name |-> name, tasks |-> tasks]

\* DAGRunner.__init__: self._task_lookup
_task_lookup(tasks) ==
    [name \in {tasks[i].name : i \in 1..Len(tasks)} |->
        tasks[CHOOSE i \in 1..Len(tasks) :
                  /\ tasks[i].name = name
                  /\ \A j \in (i + 1)..Len(tasks) : tasks[j].name # name]]

\* _validate_and_sort: the first loop, a dependency that names no task
unknown_dependency(tasks) ==
    \E i \in 1..Len(tasks) : \E j \in 1..Len(tasks[i].depends_on) :
        tasks[i].depends_on[j] \notin DOMAIN _task_lookup(tasks)

RECURSIVE dfs(_, _, _)
RECURSIVE dfs_deps(_, _, _, _)

\* mutant of dfs: a task is put into the order before its dependencies
dfs_preorder(lookup, st, task_name) ==
    IF st.raised THEN st
    ELSE IF task_name \in st.visiting THEN [st EXCEPT !.raised = TRUE]
    ELSE IF task_name \in st.visited THEN st
    ELSE LET entered == [st EXCEPT !.visiting = @ \cup {task_name},
                                   !.order = Append(@, task_name)]
             left == dfs_deps(lookup, entered, lookup[task_name].depends_on, 1)
         IN  IF left.raised THEN left
             ELSE [left EXCEPT !.visiting = @ \ {task_name},
                               !.visited = @ \cup {task_name}]

\* mutant of dfs: a task that is being visited counts as visited
dfs_ignores_visiting(lookup, st, task_name) ==
    IF st.raised THEN st
    ELSE IF task_name \in st.visiting \cup st.visited THEN st
    ELSE LET entered == [st EXCEPT !.visiting = @ \cup {task_name}]
             left == dfs_deps(lookup, entered, lookup[task_name].depends_on, 1)
         IN  IF left.raised THEN left
             ELSE [left EXCEPT !.visiting = @ \ {task_name},
                               !.visited = @ \cup {task_name},
                               !.order = Append(@, task_name)]

\* _validate_and_sort: dfs(task_name); st.raised stands for the ValueError
\* that unwinds the traversal
dfs(lookup, st, task_name) ==
    IF st.raised THEN st
    ELSE IF task_name \in st.visiting THEN [st EXCEPT !.raised = TRUE]
    ELSE IF task_name \in st.visited THEN st
    ELSE LET entered == [st EXCEPT !.visiting = @ \cup {task_name}]
             left == dfs_deps(lookup, entered, lookup[task_name].depends_on, 1)
         IN  IF left.raised THEN left
             ELSE [left EXCEPT !.visiting = @ \ {task_name},
                               !.visited = @ \cup {task_name},
                               !.order = Append(@, task_name)]

\* _validate_and_sort: for dep in task.depends_on: dfs(dep)
dfs_deps(lookup, st, deps, i) ==
    IF i > Len(deps) THEN st
    ELSE dfs_deps(lookup, dfs(lookup, st, deps[i]), deps, i + 1)

\* _validate_and_sort: for task in self.dag.tasks: dfs(task.name)
RECURSIVE dfs_tasks(_, _, _, _)
dfs_tasks(lookup, st, tasks, i) ==
    IF i > Len(tasks) THEN st
    ELSE dfs_tasks(lookup, dfs(lookup, st, tasks[i].name), tasks, i + 1)

\* DAGRunner._validate_and_sort
_validate_and_sort(tasks) ==
    IF unknown_dependency(tasks) THEN [raised |-> TRUE, order |-> <<>>]
    ELSE LET st == dfs_tasks(_task_lookup(tasks),
                             [visiting |-> {}, visited |-> {}, order |-> <<>>,
                              raised |-> FALSE],
                             tasks, 1)
         IN  [raised |-> st.raised, order |-> IF st.raised THEN <<>> ELSE st.order]

\* DAGRunner.__init__: the runner it leaves, <<>> when _validate_and_sort raises
DAGRunner(d) ==
    LET sorted == _validate_and_sort(d.tasks)
    IN  IF sorted.raised THEN <<>>
        ELSE <<[dag |-> d, _execution_order |-> sorted.order]>>

\* DAGRunner.get_execution_order
get_execution_order(r) == r._execution_order

\* DagRunRepository.insert
dag_repo_insert(rows, row) ==
    [id \in DOMAIN rows \cup {row.id} |-> IF id = row.id THEN row ELSE rows[id]]

\* DagRunRepository.update
dag_repo_update(rows, run_id, status) == [rows EXCEPT ![run_id].status = status]

\* TaskRunRepository.insert
task_repo_insert(rows, row) ==
    IF \E i \in 1..Len(rows) : rows[i].id = row.id
    THEN [i \in 1..Len(rows) |-> IF rows[i].id = row.id THEN row ELSE rows[i]]
    ELSE Append(rows, row)

\* dict.update(values): the fields of values replace those of the row
dict_update(row, values) ==
    [f \in DOMAIN row |-> IF f \in DOMAIN values THEN values[f] ELSE row[f]]

\* TaskRunRepository.update
task_repo_update(rows, task_run_id, values) ==
    [i \in 1..Len(rows) |->
        IF rows[i].id = task_run_id THEN dict_update(rows[i], values) ELSE rows[i]]

\* str(exc) of the exception the function of a task raises
ExceptionString(task_name) ==
    CASE task_name = "A" -> "boom A" [] task_name = "B" -> "boom B"
      [] task_name = "C" -> "boom C"

\* TaskResult(task_name, status, error_message)
TaskResult(task_name, status, error_message) ==
    [task_name |-> task_name, status |-> status, error_message |-> error_message]

\* TaskRunRepository.get_by_run
get_by_run(rows, dag_run_id) == SelectSeq(rows, LAMBDA row : row.dag_run_id = dag_run_id)

\* run: the id uuid4 gives the task_run row of a task
task_run_id(run_id, task_name) == <<run_id, task_name>>

\* run: the dag_run row that run inserts first
insert_running(runs, r, run_id) ==
    dag_repo_insert(runs, [id |-> run_id, dag_name |-> r.dag.name, status |-> "running"])

\* mutant of insert_pending: a row is inserted only for the tasks that depend
\* on no other
RECURSIVE insert_pending_roots_only(_, _, _, _)
insert_pending_roots_only(rows, r, run_id, i) ==
    IF i > Len(r._execution_order) THEN rows
    ELSE LET task_name == r._execution_order[i]
             depends_on == _task_lookup(r.dag.tasks)[task_name].depends_on
         IN  insert_pending_roots_only(
                 IF depends_on # <<>> THEN rows
                 ELSE task_repo_insert(rows,
                          [id |-> task_run_id(run_id, task_name),
                           dag_run_id |-> run_id,
                           task_name |-> task_name,
                           status |-> "pending",
                           depends_on |-> depends_on,
                           error_message |-> None]),
                 r, run_id, i + 1)

\* run: the first loop, one pending task_run row per task of the order
RECURSIVE insert_pending(_, _, _, _)
insert_pending(rows, r, run_id, i) ==
    IF i > Len(r._execution_order) THEN rows
    ELSE LET task_name == r._execution_order[i]
         IN  insert_pending(
                 task_repo_insert(rows,
                     [id |-> task_run_id(run_id, task_name),
                      dag_run_id |-> run_id,
                      task_name |-> task_name,
                      status |-> "pending",
                      depends_on |-> _task_lookup(r.dag.tasks)[task_name].depends_on,
                      error_message |-> None]),
                 r, run_id, i + 1)

\* mutant of run_task: a task is skipped only when all of its dependencies
\* ended failed or skipped
run_task_skipped_if_all(acc, r, run_id, task_name, raises) ==
    LET dependencies == _task_lookup(r.dag.tasks)[task_name].depends_on
        id == task_run_id(run_id, task_name)
    IN  IF /\ dependencies # <<>>
           /\ \A j \in 1..Len(dependencies) :
                  acc.results[dependencies[j]].status \in {"failed", "skipped"}
        THEN [acc EXCEPT !.results[task_name] = TaskResult(task_name, "skipped", None),
                         !.task_runs = task_repo_update(@, id, [status |-> "skipped"])]
        ELSE IF task_name \in raises
        THEN [acc EXCEPT !.results[task_name] =
                             TaskResult(task_name, "failed", ExceptionString(task_name)),
                         !.task_runs = task_repo_update(
                                           task_repo_update(@, id, [status |-> "running"]),
                                           id, [status |-> "failed",
                                                error_message |-> ExceptionString(task_name)]),
                         !.invoked = Append(@, task_name)]
        ELSE [acc EXCEPT !.results[task_name] = TaskResult(task_name, "succeeded", None),
                         !.task_runs = task_repo_update(
                                           task_repo_update(@, id, [status |-> "running"]),
                                           id, [status |-> "succeeded"]),
                         !.invoked = Append(@, task_name)]

\* mutant of run_task: only a failed dependency makes a task skipped
run_task_failed_only(acc, r, run_id, task_name, raises) ==
    LET dependencies == _task_lookup(r.dag.tasks)[task_name].depends_on
        id == task_run_id(run_id, task_name)
    IN  IF \E j \in 1..Len(dependencies) : acc.results[dependencies[j]].status = "failed"
        THEN [acc EXCEPT !.results[task_name] = TaskResult(task_name, "skipped", None),
                         !.task_runs = task_repo_update(@, id, [status |-> "skipped"])]
        ELSE IF task_name \in raises
        THEN [acc EXCEPT !.results[task_name] =
                             TaskResult(task_name, "failed", ExceptionString(task_name)),
                         !.task_runs = task_repo_update(
                                           task_repo_update(@, id, [status |-> "running"]),
                                           id, [status |-> "failed",
                                                error_message |-> ExceptionString(task_name)]),
                         !.invoked = Append(@, task_name)]
        ELSE [acc EXCEPT !.results[task_name] = TaskResult(task_name, "succeeded", None),
                         !.task_runs = task_repo_update(
                                           task_repo_update(@, id, [status |-> "running"]),
                                           id, [status |-> "succeeded"]),
                         !.invoked = Append(@, task_name)]

\* mutant of run_task: the except branch records the failure in results but
\* does not update the task_run row
run_task_failure_not_persisted(acc, r, run_id, task_name, raises) ==
    LET dependencies == _task_lookup(r.dag.tasks)[task_name].depends_on
        id == task_run_id(run_id, task_name)
    IN  IF \E j \in 1..Len(dependencies) :
               acc.results[dependencies[j]].status \in {"failed", "skipped"}
        THEN [acc EXCEPT !.results[task_name] = TaskResult(task_name, "skipped", None),
                         !.task_runs = task_repo_update(@, id, [status |-> "skipped"])]
        ELSE IF task_name \in raises
        THEN [acc EXCEPT !.results[task_name] =
                             TaskResult(task_name, "failed", ExceptionString(task_name)),
                         !.task_runs = task_repo_update(@, id, [status |-> "running"]),
                         !.invoked = Append(@, task_name)]
        ELSE [acc EXCEPT !.results[task_name] = TaskResult(task_name, "succeeded", None),
                         !.task_runs = task_repo_update(
                                           task_repo_update(@, id, [status |-> "running"]),
                                           id, [status |-> "succeeded"]),
                         !.invoked = Append(@, task_name)]

\* run: the body of the second loop for one task; the task's fn raises iff
\* the task is in raises
run_task(acc, r, run_id, task_name, raises) ==
    LET dependencies == _task_lookup(r.dag.tasks)[task_name].depends_on
        id == task_run_id(run_id, task_name)
    IN  IF \E j \in 1..Len(dependencies) :
               acc.results[dependencies[j]].status \in {"failed", "skipped"}
        THEN [acc EXCEPT !.results[task_name] = TaskResult(task_name, "skipped", None),
                         !.task_runs = task_repo_update(@, id, [status |-> "skipped"])]
        ELSE IF task_name \in raises
        THEN [acc EXCEPT !.results[task_name] =
                             TaskResult(task_name, "failed", ExceptionString(task_name)),
                         !.task_runs = task_repo_update(
                                           task_repo_update(@, id, [status |-> "running"]),
                                           id, [status |-> "failed",
                                                error_message |-> ExceptionString(task_name)]),
                         !.invoked = Append(@, task_name)]
        ELSE [acc EXCEPT !.results[task_name] = TaskResult(task_name, "succeeded", None),
                         !.task_runs = task_repo_update(
                                           task_repo_update(@, id, [status |-> "running"]),
                                           id, [status |-> "succeeded"]),
                         !.invoked = Append(@, task_name)]

\* run: the second loop
RECURSIVE run_tasks(_, _, _, _, _)
run_tasks(acc, r, run_id, raises, i) ==
    IF i > Len(r._execution_order) THEN acc
    ELSE run_tasks(run_task(acc, r, run_id, r._execution_order[i], raises),
                   r, run_id, raises, i + 1)

\* mutant of run: the run is failed only when every task has failed
run_failed_if_all_failed(runs, rows, r, run_id, raises) ==
    LET started == insert_running(runs, r, run_id)
        pending == insert_pending(rows, r, run_id, 1)
        done == run_tasks([task_runs |-> pending,
                           results |-> [name \in Range(r._execution_order) |->
                                           TaskResult(name, "pending", None)],
                           invoked |-> <<>>],
                          r, run_id, raises, 1)
        final_status == IF \A name \in DOMAIN done.results :
                               done.results[name].status = "failed"
                        THEN "failed" ELSE "succeeded"
    IN  [dag_runs |-> dag_repo_update(started, run_id, final_status),
         task_runs |-> done.task_runs,
         invoked |-> done.invoked,
         status |-> final_status,
         task_results |-> [i \in 1..Len(r._execution_order) |->
                              done.results[r._execution_order[i]]]]

\* DAGRunner.run
run(runs, rows, r, run_id, raises) ==
    LET started == insert_running(runs, r, run_id)
        pending == insert_pending(rows, r, run_id, 1)
        done == run_tasks([task_runs |-> pending,
                           results |-> [name \in Range(r._execution_order) |->
                                           TaskResult(name, "pending", None)],
                           invoked |-> <<>>],
                          r, run_id, raises, 1)
        final_status == IF \E name \in DOMAIN done.results :
                               done.results[name].status = "failed"
                        THEN "failed" ELSE "succeeded"
    IN  [dag_runs |-> dag_repo_update(started, run_id, final_status),
         task_runs |-> done.task_runs,
         invoked |-> done.invoked,
         status |-> final_status,
         task_results |-> [i \in 1..Len(r._execution_order) |->
                              done.results[r._execution_order[i]]]]

\* DAGRunner.get_run: the task_run rows of the run, sorted by task_name;
\* the names of a run are distinct, and TaskRank is their order as strings
TaskRank(name) == CASE name = "A" -> 1 [] name = "B" -> 2 [] name = "C" -> 3

get_run_tasks(rows, run_id) ==
    LET mine == get_by_run(rows, run_id)
        names == {mine[i].task_name : i \in 1..Len(mine)}
    IN  [k \in 1..Len(mine) |->
            mine[CHOOSE i \in 1..Len(mine) :
                     Cardinality({n \in names : TaskRank(n) < TaskRank(mine[i].task_name)})
                         = k - 1]]

----------------------------------------------------------------------------
(* The coupon matcher (matching/coupon_matcher.py)                         *)

\* the ticket numbers, in their order as strings
TicketsInOrder == <<"T1", "T2", "T3", "T4", "T5">>

TicketNumbers == Range(TicketsInOrder)

TicketRank(ticket) == CHOOSE i \in 1..Len(TicketsInOrder) : TicketsInOrder[i] = ticket

\* an id that is None
NoId == <<>>

\* TicketEventRepository.get_by_event_types: the rows of the tickets in turn,
\* each ticket's in event_sequence order. The dict keeps the tickets in the
\* order of their first append; the matcher keys what it reads by ticket, so
\* the turn of the tickets does not reach its result and they are taken in
\* the order of TicketsInOrder.
RECURSIVE rows_of_types(_, _, _)
rows_of_types(te, event_types, n) ==
    IF n = 0 THEN <<>>
    ELSE rows_of_types(te, event_types, n - 1)
             \o SelectSeq(te[TicketsInOrder[n]], LAMBDA row : row.event_type \in event_types)

get_by_event_types(te, event_types) == rows_of_types(te, event_types, Len(TicketsInOrder))

\* TicketLifecycleStore.get_events_by_type
get_events_by_type(te, event_types) ==
    LET rows == get_by_event_types(te, event_types)
    IN  [i \in 1..Len(rows) |-> _event_from_row(rows[i])]

\* TicketLifecycleStore.get_persisted_event_row_id: run_matching calls it, no
\* source defines it; it is taken to give the id of the persisted row that
\* carries the event_id
get_persisted_event_row_id(te, event_id) ==
    IF find_by_event_id(te, event_id) = <<>> THEN NoId
    ELSE find_by_event_id(te, event_id)[1].id

\* mutant of by_key: events without a coupon number are keyed as well
RECURSIVE by_key_with_null_coupons(_, _)
by_key_with_null_coupons(events, n) ==
    IF n = 0 THEN [k \in {} |-> {}]
    ELSE LET d == by_key_with_null_coupons(events, n - 1)
             key == <<events[n].ticket_number, events[n].coupon_number>>
         IN  [k \in DOMAIN d \cup {key} |-> IF k = key THEN events[n] ELSE d[k]]

\* run_matching: issued_by_key / flown_by_key after the first n events of the
\* loop; an event without coupon number is passed over, a later event of a
\* key replaces the earlier
RECURSIVE by_key(_, _)
by_key(events, n) ==
    IF n = 0 THEN [k \in {} |-> {}]
    ELSE LET d == by_key(events, n - 1)
             key == <<events[n].ticket_number, events[n].coupon_number>>
         IN  IF events[n].coupon_number = NoCoupon THEN d
             ELSE [k \in DOMAIN d \cup {key} |-> IF k = key THEN events[n] ELSE d[k]]

\* the order of two (ticket_number, coupon_number) tuples
KeyLess(a, b) ==
    \/ TicketRank(a[1]) < TicketRank(b[1])
    \/ a[1] = b[1] /\ a[2] < b[2]

\* sorted(all_keys)
sorted_keys(keys) ==
    [i \in 1..Cardinality(keys) |->
        CHOOSE k \in keys : Cardinality({other \in keys : KeyLess(other, k)}) = i - 1]

\* mutant of match_reset: the rows of earlier runs are kept
match_reset_keeps_rows(rows) == rows

\* CouponMatchRepository.reset
match_reset(rows) == <<>>

\* CouponMatchRepository.upsert: the dict keeps a key's place when its row is
\* replaced
match_upsert(rows, row) ==
    IF \E i \in 1..Len(rows) : /\ rows[i].ticket_number = row.ticket_number
                               /\ rows[i].coupon_number = row.coupon_number
    THEN [i \in 1..Len(rows) |->
             IF /\ rows[i].ticket_number = row.ticket_number
                /\ rows[i].coupon_number = row.coupon_number
             THEN row ELSE rows[i]]
    ELSE Append(rows, row)

\* run_matching: days_in_suspense above which an unmatched row is suspense
SuspenseDays == 30

\* run_matching: the body of the loop over sorted(all_keys) for one key
match_key(acc, te, issued_by_key, flown_by_key, key, now) ==
    LET issued == key \in DOMAIN issued_by_key
        flown == key \in DOMAIN flown_by_key
        status == IF issued /\ flown THEN "matched"
                  ELSE IF issued /\ ~flown THEN "unmatched_issued"
                  ELSE "unmatched_flown"
        row == [ticket_number |-> key[1],
                coupon_number |-> key[2],
                status |-> status,
                issued_event_id |-> IF issued
                                    THEN get_persisted_event_row_id(te, issued_by_key[key].event_id)
                                    ELSE NoId,
                flown_event_id |-> IF flown
                                   THEN get_persisted_event_row_id(te, flown_by_key[key].event_id)
                                   ELSE NoId,
                issued_at |-> IF issued THEN IsoFormat(issued_by_key[key].occurred_at)
                              ELSE NoStr,
                flown_at |-> IF flown THEN IsoFormat(flown_by_key[key].occurred_at)
                             ELSE NoStr,
                matched_at |-> IF status = "matched" THEN IsoFormat(now) ELSE NoStr,
                days_in_suspense |-> 0,
                notes |-> None]
    IN  [coupon_matches |-> match_upsert(acc.coupon_matches, row),
         matched |-> acc.matched + (IF status = "matched" THEN 1 ELSE 0),
         unmatched_issued |-> acc.unmatched_issued
                                  + (IF status = "unmatched_issued" THEN 1 ELSE 0),
         unmatched_flown |-> acc.unmatched_flown
                                 + (IF status = "unmatched_flown" THEN 1 ELSE 0)]

\* run_matching: the loop over sorted(all_keys)
RECURSIVE match_keys(_, _, _, _, _, _, _)
match_keys(acc, te, issued_by_key, flown_by_key, keys, now, n) ==
    IF n = 0 THEN acc
    ELSE match_key(match_keys(acc, te, issued_by_key, flown_by_key, keys, now, n - 1),
                   te, issued_by_key, flown_by_key, keys[n], now)

\* run_matching: the last loop, unmatched rows older than SuspenseDays
to_suspense(rows) ==
    [i \in 1..Len(rows) |->
        IF /\ rows[i].status \in {"unmatched_issued", "unmatched_flown"}
           /\ rows[i].days_in_suspense > SuspenseDays
        THEN [rows[i] EXCEPT !.status = "suspense"]
        ELSE rows[i]]

\* age_suspense: days_in_suspense above which a row is marked for escalation
EscalationDays == 90

\* mutant of age_row: matched rows age as well
age_row_all_statuses(row) ==
    LET days == row.days_in_suspense + 1
    IN  [row EXCEPT !.days_in_suspense = days,
                    !.status = IF days > SuspenseDays THEN "suspense" ELSE @,
                    !.notes = IF days > EscalationDays
                              THEN "Escalation required (>90 days)." ELSE @]

\* mutant of age_row: a row is suspense from the thirtieth day
age_row_from_thirty(row) ==
    IF row.status \in {"unmatched_issued", "unmatched_flown", "suspense"}
    THEN LET days == row.days_in_suspense + 1
         IN  [row EXCEPT !.days_in_suspense = days,
                         !.status = IF days >= SuspenseDays THEN "suspense" ELSE @,
                         !.notes = IF days > EscalationDays
                                   THEN "Escalation required (>90 days)." ELSE @]
    ELSE row

\* mutant of age_row: the status is decided on the days before the increment
age_row_status_before_increment(row) ==
    IF row.status \in {"unmatched_issued", "unmatched_flown", "suspense"}
    THEN LET days == row.days_in_suspense + 1
         IN  [row EXCEPT !.days_in_suspense = days,
                         !.status = IF row.days_in_suspense > SuspenseDays
                                    THEN "suspense" ELSE @,
                         !.notes = IF days > EscalationDays
                                   THEN "Escalation required (>90 days)." ELSE @]
    ELSE row

\* mutant of age_row: the escalation note is attached from the ninetieth day
age_row_escalates_at_ninety(row) ==
    IF row.status \in {"unmatched_issued", "unmatched_flown", "suspense"}
    THEN LET days == row.days_in_suspense + 1
         IN  [row EXCEPT !.days_in_suspense = days,
                         !.status = IF days > SuspenseDays THEN "suspense" ELSE @,
                         !.notes = IF days >= EscalationDays
                                   THEN "Escalation required (>90 days)." ELSE @]
    ELSE row

\* age_suspense: the body of the loop for one row, the row as it is upserted
\* or, for a matched row, as it is left
age_row(row) ==
    IF row.status \in {"unmatched_issued", "unmatched_flown", "suspense"}
    THEN LET days == row.days_in_suspense + 1
         IN  [row EXCEPT !.days_in_suspense = days,
                         !.status = IF days > SuspenseDays THEN "suspense" ELSE @,
                         !.notes = IF days > EscalationDays
                                   THEN "Escalation required (>90 days)." ELSE @]
    ELSE row

\* age_suspense: the loop over all_rows() after its first n rows
RECURSIVE age_rows(_, _)
age_rows(rows, n) ==
    IF n = 0 THEN rows
    ELSE match_upsert(age_rows(rows, n - 1), age_row(rows[n]))

\* CouponMatcher.age_suspense
age_suspense(rows) ==
    [coupon_matches |-> age_rows(rows, Len(rows)),
     aged |-> Cardinality({i \in 1..Len(rows) :
                 rows[i].status \in {"unmatched_issued", "unmatched_flown", "suspense"}})]

MatchResult(matched, unmatched_issued, unmatched_flown) ==
    [matched |-> matched, unmatched_issued |-> unmatched_issued,
     unmatched_flown |-> unmatched_flown]

\* CouponMatcher.run_matching
run_matching(te, rows, now) ==
    LET issued_events == get_events_by_type(te, {"ticket_issued", "ticket_reissued"})
        flown_events == get_events_by_type(te, {"coupon_flown"})
        issued_by_key == by_key(issued_events, Len(issued_events))
        flown_by_key == by_key(flown_events, Len(flown_events))
        all_keys == sorted_keys(DOMAIN issued_by_key \cup DOMAIN flown_by_key)
        done == match_keys([coupon_matches |-> match_reset(rows), matched |-> 0,
                            unmatched_issued |-> 0, unmatched_flown |-> 0],
                           te, issued_by_key, flown_by_key, all_keys, now, Len(all_keys))
    IN  [coupon_matches |-> to_suspense(done.coupon_matches),
         result |-> MatchResult(done.matched, done.unmatched_issued, done.unmatched_flown)]

----------------------------------------------------------------------------
(* Reconciliation engine                                                   *)

\* Decimal("0.01") and Decimal("10") in thousandths
ReconTolerance == 10
HighDifference == 10000

BreakClassification(break_type, severity, status, resolution) ==
    [break_type |-> break_type, severity |-> severity, status |-> status,
     resolution |-> resolution]

\* mutant of classify_break: a difference of exactly the tolerance is matched
classify_break_tolerance_inclusive(ticket_number, our_amount, their_amount, flown_exists, duplicate_lift, settlement_exists) ==
    IF duplicate_lift
    THEN BreakClassification("duplicate_lift", "high", "break", "unresolved")
    ELSE IF ~flown_exists
    THEN BreakClassification("timing", "low", "break", "unresolved")
    ELSE IF ~settlement_exists
    THEN BreakClassification("missing_settlement", "high", "break", "unresolved")
    ELSE IF our_amount = NoAmount \/ their_amount = NoAmount
    THEN BreakClassification("missing_settlement", "high", "break", "unresolved")
    ELSE LET difference == AbsDiff(our_amount, their_amount)
         IN  IF difference <= ReconTolerance
             THEN BreakClassification(None, "low", "matched", "auto_resolved")
             ELSE BreakClassification("fare_mismatch",
                                      IF difference >= HighDifference THEN "high" ELSE "medium",
                                      "break", "unresolved")

\* ReconciliationEngine.classify_break
classify_break(ticket_number, our_amount, their_amount, flown_exists, duplicate_lift, settlement_exists) ==
    IF duplicate_lift
    THEN BreakClassification("duplicate_lift", "high", "break", "unresolved")
    ELSE IF ~flown_exists
    THEN BreakClassification("timing", "low", "break", "unresolved")
    ELSE IF ~settlement_exists
    THEN BreakClassification("missing_settlement", "high", "break", "unresolved")
    ELSE IF our_amount = NoAmount \/ their_amount = NoAmount
    THEN BreakClassification("missing_settlement", "high", "break", "unresolved")
    ELSE LET difference == AbsDiff(our_amount, their_amount)
         IN  IF difference < ReconTolerance
             THEN BreakClassification(None, "low", "matched", "auto_resolved")
             ELSE BreakClassification("fare_mismatch",
                                      IF difference >= HighDifference THEN "high" ELSE "medium",
                                      "break", "unresolved")

\* a difference that is None (a signed difference can be any integer)
NoDifference == <<>>

\* mutant of recon_reset: the rows of earlier runs are kept
recon_reset_keeps_rows(rows) == rows

\* ReconRepository.reset
recon_reset(rows) == <<>>

\* ReconRepository.insert: the dict keeps a row under its id, in the place
\* of the id's first insertion
recon_insert(rows, row) ==
    IF \E i \in 1..Len(rows) : rows[i].id = row.id
    THEN [i \in 1..Len(rows) |-> IF rows[i].id = row.id THEN row ELSE rows[i]]
    ELSE Append(rows, row)

\* ReconRepository.all_rows
all_rows(rows) == rows

\* ReconRepository.get_breaks; a status or break_type of None does not filter
get_breaks(rows, status, break_type) ==
    SelectSeq(all_rows(rows),
              LAMBDA row : /\ row.status = "break"
                           /\ (status # None => row.resolution = status)
                           /\ (break_type # None => row.break_type = break_type))

\* ReconRepository.resolve: result "KeyError" when no row has the id
resolve(rows, break_id, resolution, notes, now) ==
    IF ~\E i \in 1..Len(rows) : rows[i].id = break_id
    THEN [recon_results |-> rows, result |-> "KeyError"]
    ELSE [recon_results |->
              [i \in 1..Len(rows) |->
                  IF rows[i].id = break_id
                  THEN [rows[i] EXCEPT !.resolution = resolution,
                                       !.resolution_notes = notes,
                                       !.resolved_at = IsoFormat(now)]
                  ELSE rows[i]],
          result |-> "ok"]

\* run_full_recon: the keys of issued_by_key in the order the dict iterates
\* them, which is that of each key's first event
RECURSIVE issued_keys(_, _)
issued_keys(events, n) ==
    IF n = 0 THEN <<>>
    ELSE LET keys == issued_keys(events, n - 1)
             key == <<events[n].ticket_number, events[n].coupon_number>>
         IN  IF events[n].coupon_number = NoCoupon \/ key \in Range(keys) THEN keys
             ELSE Append(keys, key)

\* run_full_recon: issued_by_key and settlement_by_key, a dict comprehension
\* over the events with a coupon number in which a later event of a key
\* replaces the earlier
RECURSIVE last_by_key(_, _)
last_by_key(events, n) ==
    IF n = 0 THEN [k \in {} |-> {}]
    ELSE LET d == last_by_key(events, n - 1)
             key == <<events[n].ticket_number, events[n].coupon_number>>
         IN  IF events[n].coupon_number = NoCoupon THEN d
             ELSE [k \in DOMAIN d \cup {key} |-> IF k = key THEN events[n] ELSE d[k]]

\* mutant of flown_of_key: a later flown event of a key replaces the earlier,
\* as in a dict keyed by (ticket, coupon)
flown_of_key_last_only(flown_events, key) ==
    LET flown == SelectSeq(flown_events,
                           LAMBDA event : /\ event.coupon_number # NoCoupon
                                          /\ <<event.ticket_number, event.coupon_number>> = key)
    IN  IF flown = <<>> THEN <<>> ELSE <<flown[Len(flown)]>>

\* run_full_recon: flown_by_key.get(key, []), the flown events of the key in
\* their order
flown_of_key(flown_events, key) ==
    SelectSeq(flown_events,
              LAMBDA event : /\ event.coupon_number # NoCoupon
                             /\ <<event.ticket_number, event.coupon_number>> = key)

\* str(uuid4()) of a row: ids of one run differ from each other, and the
\* rows of an earlier run are gone when the next run inserts
recon_row_id(key) == <<"recon", key[1], key[2]>>

\* mutant of recon_row: the difference is taken as theirs minus ours
recon_row_difference_reversed(key, issued, flown_list, settlement, now) ==
    LET our_amount == issued.gross_amount
        their_amount == IF settlement # <<>> THEN settlement[1].gross_amount ELSE NoAmount
        classification == classify_break(issued.ticket_number, our_amount, their_amount,
                                         flown_list # <<>>, Len(flown_list) > 1,
                                         settlement # <<>>)
        difference == IF our_amount # NoAmount /\ their_amount # NoAmount
                      THEN <<their_amount - our_amount>> ELSE NoDifference
        auto == classification.resolution = "auto_resolved"
    IN  [id |-> recon_row_id(key),
         ticket_number |-> issued.ticket_number,
         coupon_number |-> issued.coupon_number,
         recon_type |-> "three_way",
         status |-> classification.status,
         break_type |-> classification.break_type,
         severity |-> classification.severity,
         our_amount |-> IF our_amount # NoAmount THEN float_of(our_amount) ELSE NoAmount,
         their_amount |-> IF their_amount # NoAmount THEN float_of(their_amount) ELSE NoAmount,
         difference |-> IF difference # NoDifference THEN <<float_of(difference[1])>>
                        ELSE NoDifference,
         resolution |-> classification.resolution,
         resolution_notes |-> IF auto THEN "Rounded below tolerance." ELSE None,
         created_at |-> IsoFormat(now),
         resolved_at |-> IF auto THEN IsoFormat(now) ELSE NoStr]

\* run_full_recon: the row of one issued key; settlement is <<>> or <<event>>
recon_row(key, issued, flown_list, settlement, now) ==
    LET our_amount == issued.gross_amount
        their_amount == IF settlement # <<>> THEN settlement[1].gross_amount ELSE NoAmount
        classification == classify_break(issued.ticket_number, our_amount, their_amount,
                                         flown_list # <<>>, Len(flown_list) > 1,
                                         settlement # <<>>)
        difference == IF our_amount # NoAmount /\ their_amount # NoAmount
                      THEN <<our_amount - their_amount>> ELSE NoDifference
        auto == classification.resolution = "auto_resolved"
    IN  [id |-> recon_row_id(key),
         ticket_number |-> issued.ticket_number,
         coupon_number |-> issued.coupon_number,
         recon_type |-> "three_way",
         status |-> classification.status,
         break_type |-> classification.break_type,
         severity |-> classification.severity,
         our_amount |-> IF our_amount # NoAmount THEN float_of(our_amount) ELSE NoAmount,
         their_amount |-> IF their_amount # NoAmount THEN float_of(their_amount) ELSE NoAmount,
         difference |-> IF difference # NoDifference THEN <<float_of(difference[1])>>
                        ELSE NoDifference,
         resolution |-> classification.resolution,
         resolution_notes |-> IF auto THEN "Rounded below tolerance." ELSE None,
         created_at |-> IsoFormat(now),
         resolved_at |-> IF auto THEN IsoFormat(now) ELSE NoStr]

\* Counter[k] += 1
counter_add(counter, k) ==
    [c \in DOMAIN counter \cup {k} |->
        IF c \in DOMAIN counter THEN counter[c] + (IF c = k THEN 1 ELSE 0) ELSE 1]

ReconSummary(total_matched, total_breaks, breaks_by_type, breaks_by_severity) ==
    [total_matched |-> total_matched, total_breaks |-> total_breaks,
     breaks_by_type |-> breaks_by_type, breaks_by_severity |-> breaks_by_severity]

\* run_full_recon: the loop over issued_by_key.items(), after its first n keys
RECURSIVE recon_keys(_, _, _, _, _, _, _)
recon_keys(acc, keys, issued_by_key, flown_events, settlement_by_key, now, n) ==
    IF n = 0 THEN acc
    ELSE LET before == recon_keys(acc, keys, issued_by_key, flown_events,
                                  settlement_by_key, now, n - 1)
             key == keys[n]
             settlement == IF key \in DOMAIN settlement_by_key
                           THEN <<settlement_by_key[key]>> ELSE <<>>
             row == recon_row(key, issued_by_key[key], flown_of_key(flown_events, key),
                              settlement, now)
             matched == row.status = "matched"
         IN  [recon_results |-> recon_insert(before.recon_results, row),
              total_matched |-> before.total_matched + (IF matched THEN 1 ELSE 0),
              total_breaks |-> before.total_breaks + (IF matched THEN 0 ELSE 1),
              breaks_by_type |->
                  IF ~matched /\ row.break_type # None
                  THEN counter_add(before.breaks_by_type, row.break_type)
                  ELSE before.breaks_by_type,
              breaks_by_severity |->
                  IF ~matched THEN counter_add(before.breaks_by_severity, row.severity)
                  ELSE before.breaks_by_severity]

\* ReconciliationEngine.run_full_recon
run_full_recon(te, matches, rows, now) ==
    LET m == run_matching(te, matches, now)
        issued_events == get_events_by_type(te, {"ticket_issued", "ticket_reissued"})
        flown_events == get_events_by_type(te, {"coupon_flown"})
        settlement_events == get_events_by_type(te, {"settlement_due", "interline_claim"})
        issued_by_key == last_by_key(issued_events, Len(issued_events))
        settlement_by_key == last_by_key(settlement_events, Len(settlement_events))
        keys == issued_keys(issued_events, Len(issued_events))
        done == recon_keys([recon_results |-> recon_reset(rows),
                            total_matched |-> 0, total_breaks |-> 0,
                            breaks_by_type |-> [k \in {} |-> 0],
                            breaks_by_severity |-> [k \in {} |-> 0]],
                           keys, issued_by_key, flown_events, settlement_by_key, now,
                           Len(keys))
    IN  [coupon_matches |-> m.coupon_matches,
         match_result |-> m.result,
         recon_results |-> done.recon_results,
         summary |-> ReconSummary(done.total_matched, done.total_breaks,
                                  done.breaks_by_type, done.breaks_by_severity)]

----------------------------------------------------------------------------
(* The runtime (runtime.py) on the memory backend: the repositories and    *)
(* the fields of the runtime as one record, the stages of refresh and the  *)
(* calls of the runtime as operators on it                                 *)

\* the repositories and the runtime's fields as a call finds them
Memory ==
    [ticket_events |-> ticket_events, ticket_current_state |-> ticket_current_state,
     appended |-> appended, coupon_matches |-> coupon_matches,
     match_result |-> match_result, agings |-> agings,
     recon_results |-> recon_results, recon_summary |-> recon_summary,
     audit_log |-> audit_log, logged |-> logged, cleared |-> cleared,
     settlements |-> settlements, settlement_saga_log |-> settlement_saga_log,
     uuids |-> uuids, dag_runs |-> dag_runs, task_runs |-> task_runs,
     seeded |-> _seeded, last_recon_summary |-> _last_recon_summary]

\* the ids uuid4 hands out to audit rows, by the number of the call
AuditUuid(n) == <<"audit", n>>

\* a raw_source_hash that is None
NoHash == <<>>

\* the one element of a set of one element; {e(x) : x \in {v}} works v out
\* once however often e uses it
The(S) == CHOOSE x \in S : TRUE

\* self.audit.log(...) of the runtime: the record goes into the log and is
\* returned
self_audit_log(m, now, action, component, ticket_number, input_event_ids, output_reference, detail, raw_source_hash) ==
    The({[m EXCEPT !.audit_log = r.audit_log, !.logged = Append(@, r.record)] :
            r \in {AuditStore_log(m.audit_log, AuditUuid(Len(m.logged) + 1), now, action,
                                  component, ticket_number, input_event_ids,
                                  output_reference, detail, raw_source_hash)}})

\* reset_memory_backend(): _MEMORY_STATE.reset() clears every collection
reset_memory_backend(m) ==
    [m EXCEPT !.ticket_events = [t \in TicketNumbers |-> <<>>],
              !.ticket_current_state = [t \in TicketNumbers |-> <<>>],
              !.appended = [t \in TicketNumbers |-> <<>>],
              !.coupon_matches = <<>>,
              !.recon_results = <<>>,
              !.audit_log = <<>>,
              !.cleared = Len(m.logged),
              !.dag_runs = [id \in {} |-> {}],
              !.task_runs = <<>>,
              !.settlements = [id \in {} |-> {}],
              !.settlement_saga_log = <<>>]

\* self.settlement.reset(); self.recon.reset(); self.matcher.reset();
\* self.ticket_store.reset(); self.audit.reset()
reset_engines(m) ==
    [m EXCEPT !.settlements = [id \in {} |-> {}],
              !.settlement_saga_log = <<>>,
              !.recon_results = recon_reset(@),
              !.coupon_matches = match_reset(@),
              !.ticket_events = [t \in TicketNumbers |-> <<>>],
              !.ticket_current_state = [t \in TicketNumbers |-> <<>>],
              !.appended = [t \in TicketNumbers |-> <<>>],
              !.audit_log = AuditRepository_reset(@),
              !.cleared = Len(m.logged)]

\* the events the demo files hold, each with the channel it comes from: T1
\* issued at 100, flown and settled at 95; T2 issued at 100.000, flown and
\* settled at 99.995
SeedFeed ==
    <<[channel_id |-> "reservation_pss",
       event |-> CanonicalEvent(<<"i", "T1", 1>>, Instant(1, 0), "ticket_issued", "T1", 1, 100000)],
      [channel_id |-> "reservation_pss",
       event |-> CanonicalEvent(<<"i", "T2", 1>>, Instant(1, 0), "ticket_issued", "T2", 1, 100000)],
      [channel_id |-> "departure_control_dcs",
       event |-> CanonicalEvent(<<"f", "T1", 1>>, Instant(1, 0), "coupon_flown", "T1", 1, NoAmount)],
      [channel_id |-> "departure_control_dcs",
       event |-> CanonicalEvent(<<"f", "T2", 1>>, Instant(1, 0), "coupon_flown", "T2", 1, NoAmount)],
      [channel_id |-> "gds_agent_settlement",
       event |-> CanonicalEvent(<<"s", "T1", 1>>, Instant(1, 0), "settlement_due", "T1", 1, 95000)],
      [channel_id |-> "gds_agent_settlement",
       event |-> CanonicalEvent(<<"s", "T2", 1>>, Instant(1, 0), "settlement_due", "T2", 1, 99995)]>>

\* hashlib.sha256(payload).hexdigest() of the payload of a channel
source_hash_of(channel_id) == <<"sha256", channel_id>>

\* the source of the item at place n of the feed is logged if the item is
\* the first of its source
source_ingested(m, n, now) ==
    IF \A k \in 1..(n - 1) : SeedFeed[k].channel_id # SeedFeed[n].channel_id
    THEN self_audit_log(m, now, "source_ingested", "adapter", None, <<>>, NoId,
                        [channel_id |-> SeedFeed[n].channel_id],
                        source_hash_of(SeedFeed[n].channel_id))
    ELSE m

\* self.ticket_store.append(event) on the repositories of the runtime
ticket_store_append(m, event) ==
    The({[m EXCEPT !.ticket_events = r.ticket_events,
                   !.ticket_current_state = r.ticket_current_state,
                   !.appended = IF r.result = "appended"
                                THEN [@ EXCEPT ![event.ticket_number] =
                                          Append(@, event.event_id)]
                                ELSE @] :
            r \in {append(m.ticket_events, m.ticket_current_state, event)}})

\* on_event(event, source, payload) of _ingest_pipeline, for the item at
\* place n of the feed: the source is logged at its first event, the event
\* is appended to the store and the append is logged
on_event(m, n, now) ==
    The({self_audit_log(stored, now, "ticket_event_appended", "ticket_lifecycle_store",
                        SeedFeed[n].event.ticket_number, <<SeedFeed[n].event.event_id>>,
                        SeedFeed[n].event.event_id,
                        [event_type |-> SeedFeed[n].event.event_type],
                        source_hash_of(SeedFeed[n].channel_id)) :
            stored \in {ticket_store_append(sourced, SeedFeed[n].event) :
                           sourced \in {source_ingested(m, n, now)}}})

RECURSIVE ingest_feed(_, _, _)
\* ingest_demo(data_dir, on_event=on_event): on_event for each event of each
\* source, in the order of the sources; n items of the feed done
ingest_feed(m, n, now) ==
    IF n = 0 THEN m
    ELSE The({on_event(done, n, now) : done \in {ingest_feed(m, n - 1, now)}})

\* FlightLedgerRuntime._ingest_pipeline
_ingest_pipeline(m, now) == ingest_feed(m, Len(SeedFeed), now)

\* matcher.run_matching() of _run_matching_recon and the record of it
matching_completed(m, now) ==
    The({self_audit_log([m EXCEPT !.coupon_matches = matching.coupon_matches,
                                  !.match_result = <<matching.result>>,
                                  !.agings = 0],
                        now, "coupon_matching_completed", "coupon_matcher", None, <<>>,
                        NoId, matching.result, NoHash) :
            matching \in {run_matching(m.ticket_events, m.coupon_matches, now)}})

\* recon.run_full_recon() of _run_matching_recon and the record of it
reconciliation_completed(m, now) ==
    The({self_audit_log([m EXCEPT !.coupon_matches = r.coupon_matches,
                                  !.match_result = <<r.match_result>>,
                                  !.recon_results = r.recon_results,
                                  !.recon_summary = <<r.summary>>,
                                  !.last_recon_summary = r.summary],
                        now, "reconciliation_completed", "reconciliation_engine", None,
                        <<>>, NoId, r.summary, NoHash) :
            r \in {run_full_recon(m.ticket_events, m.coupon_matches, m.recon_results, now)}})

\* FlightLedgerRuntime._run_matching_recon
_run_matching_recon(m, now) ==
    The({reconciliation_completed(matched, now) : matched \in {matching_completed(m, now)}})

\* our_amount of _bootstrap_settlements: the gross amount if it is positive,
\* else 1; amounts in thousandths
bootstrap_our_amount(event) ==
    IF event.gross_amount # NoAmount /\ event.gross_amount > 0
    THEN event.gross_amount
    ELSE 1000

\* the body of the loop of _bootstrap_settlements for the event at index
\* (from 0) and the settlement id: calculate, validate, submit, then confirm
\* with their_amount 5 above and compensate if index % 8 == 0, else confirm
\* with the same amount and reconcile
bootstrap_saga(m, event, index, id, now) ==
    The({IF index % 8 = 0
         THEN compensate(c.settlements, c.settlement_saga_log, c.audit_log, id,
                         "Disputed amount", now, now)
         ELSE reconcile(c.settlements, c.settlement_saga_log, c.audit_log, id, now, now) :
            c \in {confirm(s.settlements, s.settlement_saga_log, s.audit_log, id,
                           IF index % 8 = 0 THEN bootstrap_our_amount(event) + 5000
                           ELSE bootstrap_our_amount(event), now, now) :
               s \in {submit(v.settlements, v.settlement_saga_log, v.audit_log, id, now, now) :
                  v \in {validate(k.settlements, k.settlement_saga_log, k.audit_log, id,
                                  now, now) :
                     k \in {calculate(m.settlements, m.settlement_saga_log, m.audit_log,
                                      id, event.ticket_number, "counterparty",
                                      bootstrap_our_amount(event), now, now)}}}}})

\* one turn of the loop of _bootstrap_settlements
bootstrap_settlement(m, event, index, now) ==
    The({[m EXCEPT !.settlements = last.settlements,
                   !.settlement_saga_log = last.settlement_saga_log,
                   !.audit_log = last.audit_log,
                   !.uuids = @ + 1] :
            last \in {bootstrap_saga(m, event, index, <<"settlement", m.uuids + 1>>, now)}})

RECURSIVE bootstrap_events(_, _, _, _)
\* the loop of _bootstrap_settlements after the first n events
bootstrap_events(m, events, n, now) ==
    IF n = 0 THEN m
    ELSE The({bootstrap_settlement(done, events[n], n - 1, now) :
                 done \in {bootstrap_events(m, events, n - 1, now)}})

\* FlightLedgerRuntime._bootstrap_settlements
_bootstrap_settlements(m, now) ==
    The({bootstrap_events(m, settlement_events, Len(settlement_events), now) :
            settlement_events \in
                {get_events_by_type(m.ticket_events, {"settlement_due", "interline_claim"})}})

\* the stages of refresh between its reset and its last assignment
seed(m, now) ==
    The({_bootstrap_settlements(matched, now) :
            matched \in {_run_matching_recon(ingested, now) :
                            ingested \in {_ingest_pipeline(m, now)}}})

\* FlightLedgerRuntime.refresh(force), run alone
refresh(m, force, now) ==
    IF m.seeded /\ ~force THEN m
    ELSE [seed([reset_engines(reset_memory_backend(m)) EXCEPT !.seeded = FALSE], now)
          EXCEPT !.seeded = TRUE]

\* FlightLedgerRuntime.ensure_seeded on the memory backend
ensure_seeded(m, now) == IF m.seeded THEN m ELSE refresh(m, FALSE, now)

\* what ticket_history returns after ensure_seeded
runtime_ticket_history(m, ticket_number) ==
    LET history == get_history(m.ticket_events, ticket_number)
    IN  [i \in 1..Len(history) |-> model_dump(history[i])]

\* how many rows have the status
rows_of_status(rows, status) == Cardinality({i \in 1..Len(rows) : rows[i].status = status})

\* what matching_summary returns after ensure_seeded
runtime_matching_summary(m) ==
    [matched |-> rows_of_status(m.coupon_matches, "matched"),
     unmatched_issued |-> rows_of_status(m.coupon_matches, "unmatched_issued"),
     unmatched_flown |-> rows_of_status(m.coupon_matches, "unmatched_flown"),
     suspense |-> rows_of_status(m.coupon_matches, "suspense"),
     total |-> Len(m.coupon_matches)]

\* what recon_summary returns after ensure_seeded: asdict(_last_recon_summary)
runtime_recon_summary(m) == m.last_recon_summary

\* what settlements(status) returns after ensure_seeded, as the set of its
\* rows (the rows carry no created_at here, which the list is ordered by)
runtime_settlements(m, status) ==
    {m.settlements[id] : id \in {i \in DOMAIN m.settlements :
                                     status = None \/ m.settlements[i].status = status}}

\* the break resolved and break_resolved logged, or KeyError and nothing
\* else, on a seeded runtime
resolve_and_log(m, r, break_id, resolution, notes, now) ==
    IF r.result = "KeyError" THEN [memory |-> m, raised |-> "KeyError"]
    ELSE [memory |->
              self_audit_log([m EXCEPT !.recon_results = r.recon_results], now,
                             "break_resolved", "reconciliation", None, <<>>, break_id,
                             [resolution |-> resolution, notes |-> notes], NoHash),
          raised |-> None]

\* resolve_break that logs break_resolved whether or not the break is found
runtime_resolve_break_logs_always(m, break_id, resolution, notes, now) ==
    The({[memory |->
              self_audit_log([seeded EXCEPT !.recon_results = r.recon_results], now,
                             "break_resolved", "reconciliation", None, <<>>, break_id,
                             [resolution |-> resolution, notes |-> notes], NoHash),
          raised |-> IF r.result = "KeyError" THEN "KeyError" ELSE None] :
            <<seeded, r>> \in
                UNION {{<<e, x>> : x \in {resolve(e.recon_results, break_id, resolution,
                                                  notes, now)}} :
                          e \in {ensure_seeded(m, now)}}})

\* FlightLedgerRuntime.resolve_break: [memory, raised]
runtime_resolve_break(m, break_id, resolution, notes, now) ==
    The({resolve_and_log(call[1], call[2], break_id, resolution, notes, now) :
            call \in UNION {{<<seeded, r>> :
                               r \in {resolve(seeded.recon_results, break_id, resolution,
                                              notes, now)}} :
                               seeded \in {ensure_seeded(m, now)}}})

----------------------------------------------------------------------------
(* The store's operations as actions                                       *)

InitStore ==
    /\ ticket_events = [t \in TicketNumbers |-> <<>>]
    /\ ticket_current_state = [t \in TicketNumbers |-> <<>>]
    /\ appended = [t \in TicketNumbers |-> <<>>]

\* store.append(event)
AppendEvent(event) ==
    LET r == append(ticket_events, ticket_current_state, event)
    IN  /\ ticket_events' = r.ticket_events
        /\ ticket_current_state' = r.ticket_current_state
        /\ appended' = IF r.result = "appended"
                       THEN [appended EXCEPT ![event.ticket_number] = Append(@, event.event_id)]
                       ELSE appended
        /\ result' = r.result
        /\ UNCHANGED <<settlementVars, dagVars, matchVars, reconVars, audit_log, clock, otherVars>>

\* store.reset()
ResetStore ==
    /\ ticket_events' = [t \in TicketNumbers |-> <<>>]
    /\ ticket_current_state' = [t \in TicketNumbers |-> <<>>]
    /\ appended' = [t \in TicketNumbers |-> <<>>]
    /\ result' = "reset"
    /\ UNCHANGED <<settlementVars, dagVars, matchVars, reconVars, audit_log, clock, otherVars>>

\* the settlement engine's calls ---------------------------------------------

InitSettlement ==
    /\ settlements = [id \in {} |-> {}]
    /\ settlement_saga_log = <<>>
    /\ uuids = 0
    /\ audit_store = FALSE
    /\ audit_log = <<>>
    /\ clock = 0

InitDag ==
    /\ dag = <<>>
    /\ runner = <<>>
    /\ dag_runs = [id \in {} |-> {}]
    /\ task_runs = <<>>
    /\ run_uuids = 0
    /\ invoked = <<>>

InitMatch ==
    /\ coupon_matches = <<>>
    /\ match_result = <<>>
    /\ agings = 0

InitRecon ==
    /\ recon_results = <<>>
    /\ recon_summary = <<>>
    /\ classified = <<>>

\* the threads that call store.append at the same time
Callers == {"A", "B"}

\* a caller that is in no call: no event, no sequence, no history read, no
\* conflict met, no row inserted
IdleCaller ==
    [pc |-> "idle", event |-> <<>>, sequence |-> 0, history |-> <<>>,
     lost |-> 0, conflicts |-> 0, inserted |-> 0]

InitCallers == callers = [c \in Callers |-> IdleCaller]

\* the threads that call the runtime at the same time
Threads == {"X", "Y"}

\* a thread that has made no call
IdleThread ==
    [call |-> "none", force |-> FALSE, pc |-> "idle", read |-> <<>>, during |-> FALSE,
     calls |-> 0]

\* FlightLedgerRuntime.__init__
InitRuntime ==
    /\ _seeded = FALSE
    /\ _seed_lock = None
    /\ _last_recon_summary = ReconSummary(0, 0, [k \in {} |-> 0], [k \in {} |-> 0])
    /\ threads = [t \in Threads |-> IdleThread]

InitBus == sinks = <<>> /\ offered = <<>> /\ topics = InMemoryBus

InitIngest == files = <<>> /\ snapshot_bus = <<>> /\ channels = <<>>

InitAudit ==
    /\ logged = <<>>
    /\ cleared = 0
    /\ returned = <<>>

Init ==
    /\ InitStore
    /\ InitSettlement
    /\ InitDag
    /\ InitMatch
    /\ InitRecon
    /\ InitAudit
    /\ InitCallers
    /\ InitRuntime
    /\ InitBus
    /\ InitIngest
    /\ result = "init"

\* the ids uuid4 hands out, in the order it hands them out
SettlementUuids == <<"S1", "S2">>

SettlementIds == Range(SettlementUuids)

\* transitions ever logged, and the last tick of the clock
MaxTransitions == 6

MaxClock == 1

\* our_amount and their_amount, in thousandths: 0, 150 and 200 against 150,
\* 195, 199.990 and 199.995
OurAmounts == {0, 150000, 200000}

TheirAmounts == {150000, 195000, 199990, 199995}

Reasons == {"dispute unresolved"}

\* the clock moves by at most one tick before each of the two readings of a
\* transition
Readings == {<<d1, d2>> \in {0, 1} \X {0, 1} : clock + d1 + d2 <= MaxClock}

\* what every engine call does with its outcome r
Leave(r, last_reading) ==
    /\ settlements' = r.settlements
    /\ settlement_saga_log' = r.settlement_saga_log
    /\ audit_log' = r.audit_log
    /\ result' = r.result
    /\ clock' = IF r.result = "ok" THEN last_reading ELSE clock
    /\ UNCHANGED <<audit_store, storeVars, dagVars, matchVars, reconVars, otherVars>>

CanLog == Len(audit_log) < MaxTransitions /\ Len(settlement_saga_log) < MaxTransitions

\* SettlementEngine(audit_store=...): the engine is constructed once, before
\* its first call, with an audit store or (the default) without
ConstructEngine(with_audit_store) ==
    /\ result = "init"
    /\ audit_store' = with_audit_store
    /\ result' = "constructed"
    /\ UNCHANGED <<settlements, settlement_saga_log, uuids, audit_log, clock>>
    /\ UNCHANGED <<storeVars, dagVars, matchVars, reconVars, otherVars>>

Calculate(our_amount) ==
    /\ uuids < Len(SettlementUuids)
    /\ CanLog
    /\ \E d \in Readings :
         /\ Leave(calculate(settlements, settlement_saga_log, audit_log,
                            SettlementUuids[uuids + 1],
                            "T1", "AA", our_amount,
                            Now(clock + d[1]), Now(clock + d[1] + d[2])),
                  clock + d[1] + d[2])
         /\ uuids' = uuids + 1

Validate(settlement_id) ==
    /\ CanLog
    /\ \E d \in Readings :
         Leave(validate(settlements, settlement_saga_log, audit_log, settlement_id,
                        Now(clock + d[1]), Now(clock + d[1] + d[2])),
               clock + d[1] + d[2])
    /\ UNCHANGED uuids

Submit(settlement_id) ==
    /\ CanLog
    /\ \E d \in Readings :
         Leave(submit(settlements, settlement_saga_log, audit_log, settlement_id,
                      Now(clock + d[1]), Now(clock + d[1] + d[2])),
               clock + d[1] + d[2])
    /\ UNCHANGED uuids

Confirm(settlement_id, their_amount) ==
    /\ CanLog
    /\ \E d \in Readings :
         Leave(confirm(settlements, settlement_saga_log, audit_log, settlement_id,
                       their_amount, Now(clock + d[1]), Now(clock + d[1] + d[2])),
               clock + d[1] + d[2])
    /\ UNCHANGED uuids

Reconcile(settlement_id) ==
    /\ CanLog
    /\ \E d \in Readings :
         Leave(reconcile(settlements, settlement_saga_log, audit_log, settlement_id,
                         Now(clock + d[1]), Now(clock + d[1] + d[2])),
               clock + d[1] + d[2])
    /\ UNCHANGED uuids

Compensate(settlement_id, reason) ==
    /\ CanLog
    /\ \E d \in Readings :
         Leave(compensate(settlements, settlement_saga_log, audit_log, settlement_id,
                          reason, Now(clock + d[1]), Now(clock + d[1] + d[2])),
               clock + d[1] + d[2])
    /\ UNCHANGED uuids

\* SettlementEngine.reset: SettlementRepository.reset clears both tables
ResetSettlements ==
    /\ settlements' = [id \in {} |-> {}]
    /\ settlement_saga_log' = <<>>
    /\ result' = "reset"
    /\ UNCHANGED <<uuids, audit_store, audit_log, clock>>
    /\ UNCHANGED <<storeVars, dagVars, matchVars, reconVars, otherVars>>

NextSettlement ==
    \/ \E with_audit_store \in BOOLEAN : ConstructEngine(with_audit_store)
    \/ \E our_amount \in OurAmounts : Calculate(our_amount)
    \/ \E id \in SettlementIds : Validate(id)
    \/ \E id \in SettlementIds : Submit(id)
    \/ \E id \in SettlementIds : \E their_amount \in TheirAmounts : Confirm(id, their_amount)
    \/ \E id \in SettlementIds : Reconcile(id)
    \/ \E id \in SettlementIds : \E reason \in Reasons : Compensate(id, reason)
    \/ ResetSettlements

SpecSettlement == Init /\ [][NextSettlement]_vars

\* the engine's calls with amounts below, at and above zero ------------------

\* our_amount in thousandths: -5, 0 and 150
SignedAmounts == {-5000, 0, 150000}

NextValidate ==
    \/ \E with_audit_store \in BOOLEAN : ConstructEngine(with_audit_store)
    \/ \E our_amount \in SignedAmounts : Calculate(our_amount)
    \/ \E id \in SettlementIds : Validate(id)
    \/ \E id \in SettlementIds : Submit(id)
    \/ \E id \in SettlementIds : Confirm(id, 150000)
    \/ \E id \in SettlementIds : Reconcile(id)
    \/ \E id \in SettlementIds : \E reason \in Reasons : Compensate(id, reason)
    \/ ResetSettlements

SpecValidate == Init /\ [][NextValidate]_vars

\* the engine's calls on settlements of 150, confirmed at 150 or at 195 -------

DisputeAmounts == {150000, 195000}

NextSaga ==
    \/ \E with_audit_store \in BOOLEAN : ConstructEngine(with_audit_store)
    \/ Calculate(150000)
    \/ \E id \in SettlementIds : Validate(id)
    \/ \E id \in SettlementIds : Submit(id)
    \/ \E id \in SettlementIds : \E their_amount \in DisputeAmounts : Confirm(id, their_amount)
    \/ \E id \in SettlementIds : Reconcile(id)
    \/ \E id \in SettlementIds : \E reason \in Reasons : Compensate(id, reason)
    \/ ResetSettlements

SpecSaga == Init /\ [][NextSaga]_vars

\* the ticket store's calls --------------------------------------------------

EventIds == {1, 2, 3}

\* the events offered to the store: every event_id with every ticket, a type
\* of each kind of projection rule, with and without a coupon number
StoreEvents ==
    {CanonicalEvent(id, Instant(1, 0), type, ticket, coupon, NoAmount) :
        id \in EventIds, ticket \in Tickets, coupon \in {NoCoupon, 1},
        type \in {"ticket_issued", "coupon_flown", "booking_modified"}}

Next ==
    \/ \E event \in StoreEvents : AppendEvent(event)
    \/ ResetStore

Spec == Init /\ [][Next]_vars

\* the events offered when the store is queried as of a time: occurred_at
\* varies within and across seconds, in any order of arrival
AsOfEvents ==
    {CanonicalEvent(id, at, type, ticket, 1, NoAmount) :
        id \in EventIds, ticket \in Tickets,
        at \in {Instant(1, 0), Instant(1, 5), Instant(2, 0)},
        type \in {"ticket_issued", "coupon_flown"}}

\* the values of as_of that are asked for
AsOfTimes ==
    {Instant(0, 0), Instant(1, 0), Instant(1, 3), Instant(1, 5), Instant(1, 7),
     Instant(2, 0), Instant(3, 0)}

NextAsOf ==
    \/ \E event \in AsOfEvents : AppendEvent(event)
    \/ ResetStore

SpecAsOf == Init /\ [][NextAsOf]_vars

\* the DAG runner's calls ----------------------------------------------------

\* the tasks, in the order a DAG declares them
TaskNames == <<"A", "B", "C">>

\* the dependency lists a task is declared with
DependsOn ==
    {<<>>, <<"A">>, <<"B">>, <<"C">>, <<"A", "B">>, <<"B", "A">>, <<"B", "C">>}

\* the DAGs offered: the first one, two or three tasks, each with any of the
\* dependency lists, so that a list may name the task itself, a task declared
\* later, or a task that is not declared
Dags ==
    UNION {{DAG("close", [i \in 1..n |-> Task(TaskNames[i], deps[i])]) :
               deps \in [1..n -> DependsOn]} : n \in 1..Len(TaskNames)}

\* the ids uuid4 hands out to dag_run rows
RunUuids == <<"R1">>

\* runner = DAGRunner(dag); the constructor reads nothing but its argument
\* and replaces dag and runner whole, so a second construction in a row
\* reaches no state that the first does not
Construct(d) ==
    /\ result \notin {"constructed", "ValueError"}
    /\ dag' = <<d>>
    /\ runner' = DAGRunner(d)
    /\ result' = IF DAGRunner(d) = <<>> THEN "ValueError" ELSE "constructed"
    /\ UNCHANGED <<dag_runs, task_runs, run_uuids, invoked>>
    /\ UNCHANGED <<storeVars, settlementVars, matchVars, reconVars, audit_log, clock, otherVars>>

\* runner.run(), with the task functions of raises raising
Run(raises) ==
    /\ runner # <<>>
    /\ run_uuids < Len(RunUuids)
    /\ raises \subseteq Range(runner[1]._execution_order)
    /\ LET r == run(dag_runs, task_runs, runner[1], RunUuids[run_uuids + 1], raises)
       IN  /\ dag_runs' = r.dag_runs
           /\ task_runs' = r.task_runs
           /\ invoked' = r.invoked
           /\ result' = r.status
    /\ run_uuids' = run_uuids + 1
    /\ UNCHANGED <<dag, runner>>
    /\ UNCHANGED <<storeVars, settlementVars, matchVars, reconVars, audit_log, clock, otherVars>>

NextDag ==
    \/ \E d \in Dags : Construct(d)
    \/ \E raises \in SUBSET Range(TaskNames) : Run(raises)

SpecDag == Init /\ [][NextDag]_vars

\* the coupon matcher's calls ------------------------------------------------

\* the events of the matcher's tests: _issued(ticket, coupon)
\* and _flown(ticket, coupon), and events of the other kinds
_issued(ticket, coupon) ==
    CanonicalEvent(<<"iss", ticket, coupon>>, Instant(1, 0), "ticket_issued",
                   ticket, coupon, NoAmount)

_flown(ticket, coupon) ==
    CanonicalEvent(<<"flw", ticket, coupon>>, Instant(2, 0), "coupon_flown",
                   ticket, coupon, NoAmount)

_other(type, ticket, coupon) ==
    CanonicalEvent(<<type, ticket, coupon>>, Instant(3, 0), type, ticket, coupon, NoAmount)

\* the feed the store ingests before a matching run, in its order: five
\* tickets issued on coupon 1 and the first three of them flown, T2 flown
\* before it is issued, and among them a reissue, a flown second coupon, an
\* issue without coupon number and an event that is neither issued nor flown
Feed ==
    <<_issued("T1", 1), _other("ticket_reissued", "T1", 1), _flown("T1", 1),
      _flown("T1", 2),
      _flown("T2", 1), _issued("T2", 1), _issued("T2", NoCoupon),
      _issued("T3", 1), _other("booking_modified", "T3", 1), _flown("T3", 1),
      _issued("T4", 1), _issued("T5", 1)>>

MatchEvents == Range(Feed)

\* the place of an event of the feed
FeedPlace(event_id) == CHOOSE i \in 1..Len(Feed) : Feed[i].event_id = event_id

\* store.append(event) while the feed is ingested, which is before the
\* matcher runs: any event of the feed that comes after those persisted
IngestEvent(event) ==
    /\ coupon_matches = <<>>
    /\ \A t \in TicketNumbers : \A i \in 1..Len(ticket_events[t]) :
           FeedPlace(ticket_events[t][i].payload.event_id) < FeedPlace(event.event_id)
    /\ AppendEvent(event)

\* age_suspense calls between two matching runs
MaxAgings == 92

\* matcher.run_matching()
RunMatching ==
    LET r == run_matching(ticket_events, coupon_matches, Now(clock))
    IN  /\ coupon_matches' = r.coupon_matches
        /\ match_result' = <<r.result>>
        /\ agings' = 0
        /\ result' = "run_matching"
        /\ UNCHANGED <<storeVars, settlementVars, dagVars, reconVars, audit_log, clock, otherVars>>

\* matcher.reset()
ResetMatcher ==
    /\ coupon_matches' = match_reset(coupon_matches)
    /\ match_result' = <<>>
    /\ agings' = 0
    /\ result' = "reset"
    /\ UNCHANGED <<storeVars, settlementVars, dagVars, reconVars, audit_log, clock, otherVars>>

\* matcher.age_suspense()
AgeSuspense ==
    /\ agings < MaxAgings
    /\ coupon_matches' = age_suspense(coupon_matches).coupon_matches
    /\ agings' = agings + 1
    /\ result' = "age_suspense"
    /\ UNCHANGED <<match_result, storeVars, settlementVars, dagVars, reconVars, audit_log, clock, otherVars>>

NextMatch ==
    \/ \E event \in MatchEvents : IngestEvent(event)
    \/ RunMatching
    \/ ResetMatcher
    \/ ResetStore

SpecMatch == Init /\ [][NextMatch]_vars

\* the events ingested before rows are aged: one ticket issued and flown on
\* coupon 1 and flown on coupon 2, another only issued
AgingEvents == {_issued("T1", 1), _flown("T1", 1), _flown("T1", 2), _issued("T4", 1)}

NextAging ==
    \/ \E event \in AgingEvents : IngestEvent(event)
    \/ RunMatching
    \/ AgeSuspense
    \/ ResetMatcher
    \/ ResetStore

SpecAging == Init /\ [][NextAging]_vars

----------------------------------------------------------------------------
(* The reconciliation engine's operations as actions                       *)

\* the amounts classify_break is called with, in thousandths: none, equal,
\* and differences of 0.005, 0.009, 0.01, 5, 9.999, 10 and 20 to either side
ClassifyOurAmounts == {NoAmount, 100000}

ClassifyTheirAmounts ==
    {NoAmount, 100000, 99995, 99991, 99990, 100010, 95000, 90001, 90000, 110000, 80000}

\* engine.classify_break(ticket_number, our_amount, their_amount,
\* flown_exists, duplicate_lift, settlement_exists)
Classify(ticket_number, our_amount, their_amount, flown_exists, duplicate_lift, settlement_exists) ==
    /\ classified' = <<[ticket_number |-> ticket_number, our_amount |-> our_amount,
                        their_amount |-> their_amount, flown_exists |-> flown_exists,
                        duplicate_lift |-> duplicate_lift,
                        settlement_exists |-> settlement_exists,
                        classification |->
                            classify_break(ticket_number, our_amount, their_amount,
                                           flown_exists, duplicate_lift,
                                           settlement_exists)]>>
    /\ result' = "classify_break"
    /\ UNCHANGED <<recon_results, recon_summary>>
    /\ UNCHANGED <<storeVars, settlementVars, dagVars, matchVars, audit_log, clock, otherVars>>

NextClassify ==
    \E our_amount \in ClassifyOurAmounts, their_amount \in ClassifyTheirAmounts,
       flown_exists \in BOOLEAN, duplicate_lift \in BOOLEAN, settlement_exists \in BOOLEAN :
        Classify("T1", our_amount, their_amount, flown_exists, duplicate_lift,
                 settlement_exists)

SpecClassify == Init /\ [][NextClassify]_vars

\* the test helper _event: coupon 1, one fixed occurred_at
_event(event_id, event_type, ticket, amount) ==
    CanonicalEvent(<<event_id, ticket, 1>>, Instant(1, 0), event_type, ticket, 1, amount)

\* the feed the store ingests before a reconciliation run, in its order: T1
\* issued at 100, flown and settled at 95; T2 issued at 100.000, flown and
\* settled at 99.995; T3 issued at 120, without settlement, flown twice
ReconFeed ==
    <<_event("i", "ticket_issued", "T1", 100000), _event("f", "coupon_flown", "T1", NoAmount),
      _event("s", "settlement_due", "T1", 95000),
      _event("i", "ticket_issued", "T2", 100000), _event("f", "coupon_flown", "T2", NoAmount),
      _event("s", "settlement_due", "T2", 99995),
      _event("i", "ticket_issued", "T3", 120000), _event("f", "coupon_flown", "T3", NoAmount),
      _event("g", "coupon_flown", "T3", NoAmount)>>

ReconEvents == Range(ReconFeed)

ReconFeedPlace(event_id) == CHOOSE i \in 1..Len(ReconFeed) : ReconFeed[i].event_id = event_id

\* store.append(event) while the feed is ingested, which is before the
\* engine runs: any event of the feed that comes after those persisted
IngestReconEvent(event) ==
    /\ coupon_matches = <<>>
    /\ recon_results = <<>>
    /\ \A t \in TicketNumbers : \A i \in 1..Len(ticket_events[t]) :
           ReconFeedPlace(ticket_events[t][i].payload.event_id) < ReconFeedPlace(event.event_id)
    /\ AppendEvent(event)

\* engine.run_full_recon()
RunFullRecon ==
    LET r == run_full_recon(ticket_events, coupon_matches, recon_results, Now(clock))
    IN  /\ coupon_matches' = r.coupon_matches
        /\ match_result' = <<r.match_result>>
        /\ agings' = 0
        /\ recon_results' = r.recon_results
        /\ recon_summary' = <<r.summary>>
        /\ result' = "run_full_recon"
        /\ UNCHANGED <<classified, storeVars, settlementVars, dagVars, audit_log, clock, otherVars>>

\* the ids resolve_break is called with: those a run can give a row, and one
\* that no row has
BreakIds == {recon_row_id(<<t, 1>>) : t \in {"T1", "T2", "T3", "T5"}}

Resolutions == {"auto_resolved", "unresolved", "manually_resolved"}

ResolutionNotes == {"reviewed"}

\* engine.resolve_break(break_id, resolution, notes)
ResolveBreak(break_id, resolution, notes) ==
    LET r == resolve(recon_results, break_id, resolution, notes, Now(clock))
    IN  /\ recon_results' = r.recon_results
        /\ result' = IF r.result = "ok" THEN "resolve_break" ELSE r.result
        /\ UNCHANGED <<recon_summary, classified>>
        /\ UNCHANGED <<storeVars, settlementVars, dagVars, matchVars, audit_log, clock, otherVars>>

\* engine.reset()
ResetRecon ==
    /\ recon_results' = recon_reset(recon_results)
    /\ recon_summary' = <<>>
    /\ result' = "reset"
    /\ UNCHANGED <<classified, storeVars, settlementVars, dagVars, matchVars, audit_log, clock, otherVars>>

NextRecon ==
    \/ \E event \in ReconEvents : IngestReconEvent(event)
    \/ RunFullRecon
    \/ \E break_id \in BreakIds, resolution \in Resolutions, notes \in ResolutionNotes :
           ResolveBreak(break_id, resolution, notes)
    \/ ResetRecon
    \/ ResetMatcher
    \/ ResetStore

SpecRecon == Init /\ [][NextRecon]_vars

\* a feed whose events the store has any part of: T1 issued, flown twice and
\* settled at the issued amount; T4 issued without coupon number; T5 issued
\* and reissued
KeysFeed ==
    <<_event("i", "ticket_issued", "T1", 100000), _event("f", "coupon_flown", "T1", NoAmount),
      _event("g", "coupon_flown", "T1", NoAmount),
      _event("s", "settlement_due", "T1", 100000),
      CanonicalEvent(<<"i", "T4", NoCoupon>>, Instant(1, 0), "ticket_issued", "T4",
                     NoCoupon, 100000),
      _event("i", "ticket_issued", "T5", 120000),
      _event("r", "ticket_reissued", "T5", 120000)>>

KeysEvents == Range(KeysFeed)

KeysFeedPlace(event_id) == CHOOSE i \in 1..Len(KeysFeed) : KeysFeed[i].event_id = event_id

\* store.append(event) between two runs of the engine: any event of the feed
\* that comes after those persisted
IngestKeysEvent(event) ==
    /\ \A t \in TicketNumbers : \A i \in 1..Len(ticket_events[t]) :
           KeysFeedPlace(ticket_events[t][i].payload.event_id) < KeysFeedPlace(event.event_id)
    /\ AppendEvent(event)

NextReconKeys ==
    \/ \E event \in KeysEvents : IngestKeysEvent(event)
    \/ RunFullRecon
    \/ ResetStore

SpecReconKeys == Init /\ [][NextReconKeys]_vars

----------------------------------------------------------------------------
(* The audit store's operations as actions                                 *)

\* log calls ever made, and the last tick of the clock under them
MaxLogs == 3

MaxAuditClock == 3


\* the tickets and output references of the log calls and of the queries
AuditTickets == {"T1", "T2"}

AuditReferences == {"recon-1"}

\* store.log(action="ingested", component="test", ticket_number=...,
\* output_reference=...), the clock having moved by d ticks since the last call
AuditLog(ticket_number, output_reference, d) ==
    /\ Len(logged) < MaxLogs
    /\ clock + d <= MaxAuditClock
    /\ LET r == AuditStore_log(audit_log, AuditUuid(Len(logged) + 1), Now(clock + d),
                               "ingested", "test", ticket_number, <<>>,
                               output_reference, <<>>, None)
       IN  /\ audit_log' = r.audit_log
           /\ logged' = Append(logged, r.record)
    /\ clock' = clock + d
    /\ result' = "log"
    /\ UNCHANGED <<cleared, returned>>
    /\ UNCHANGED <<storeVars, settlementVars, dagVars, matchVars, reconVars>>
    /\ UNCHANGED <<callerVars, runtimeVars, busVars, ingestVars>>

\* store.reset()
AuditReset ==
    /\ audit_log' = AuditRepository_reset(audit_log)
    /\ cleared' = Len(logged)
    /\ result' = "reset"
    /\ UNCHANGED <<logged, returned, clock>>
    /\ UNCHANGED <<storeVars, settlementVars, dagVars, matchVars, reconVars>>
    /\ UNCHANGED <<callerVars, runtimeVars, busVars, ingestVars>>

\* store.get_history(ticket_number)
AuditGetHistory(ticket_number) ==
    /\ returned' = <<[query |-> "get_history", key |-> ticket_number,
                      records |-> AuditStore_get_history(audit_log, ticket_number)]>>
    /\ result' = "get_history"
    /\ UNCHANGED <<logged, cleared, audit_log, clock>>
    /\ UNCHANGED <<storeVars, settlementVars, dagVars, matchVars, reconVars>>
    /\ UNCHANGED <<callerVars, runtimeVars, busVars, ingestVars>>

\* store.get_lineage(output_reference)
AuditGetLineage(output_reference) ==
    /\ returned' = <<[query |-> "get_lineage", key |-> output_reference,
                      records |-> AuditStore_get_lineage(audit_log, output_reference)]>>
    /\ result' = "get_lineage"
    /\ UNCHANGED <<logged, cleared, audit_log, clock>>
    /\ UNCHANGED <<storeVars, settlementVars, dagVars, matchVars, reconVars>>
    /\ UNCHANGED <<callerVars, runtimeVars, busVars, ingestVars>>

NextAudit ==
    \/ \E ticket_number \in AuditTickets \cup {None},
          output_reference \in AuditReferences \cup {None}, d \in {0, 1} :
           AuditLog(ticket_number, output_reference, d)
    \/ AuditReset
    \/ \E ticket_number \in AuditTickets : AuditGetHistory(ticket_number)
    \/ \E output_reference \in AuditReferences : AuditGetLineage(output_reference)

SpecAudit == Init /\ [][NextAudit]_vars

----------------------------------------------------------------------------
(* store.append called by two threads: each statement of append that reads *)
(* or writes a repository is one step, and the steps of the two callers    *)
(* interleave in any order                                                 *)

\* the events the concurrent callers append: two of ticket T1, one of T2
ConcurrentEvents ==
    {CanonicalEvent(1, Instant(1, 0), "ticket_issued", "T1", 1, NoAmount),
     CanonicalEvent(2, Instant(1, 0), "coupon_flown", "T1", 1, NoAmount),
     CanonicalEvent(3, Instant(1, 0), "ticket_issued", "T2", 1, NoAmount)}

\* what a step of caller c leaves of everything but the store and callers
StepFrame ==
    /\ UNCHANGED <<settlementVars, dagVars, matchVars, reconVars, audit_log, clock>>
    /\ UNCHANGED <<auditVars, runtimeVars, busVars, ingestVars>>

\* caller c calls store.append(event)
CallAppend(c, event) ==
    /\ callers[c].pc = "idle"
    /\ callers' = [callers EXCEPT ![c].pc = "find_by_event_id", ![c].event = <<event>>]
    /\ UNCHANGED <<storeVars, result>>
    /\ StepFrame

\* existing = self.event_repository.find_by_event_id(event.event_id);
\* if existing: return
StepFind(c) ==
    /\ callers[c].pc = "find_by_event_id"
    /\ LET existing == find_by_event_id(ticket_events, callers[c].event[1].event_id)
       IN  /\ callers' = [callers EXCEPT
                  ![c].pc = IF existing # <<>> THEN "returned" ELSE "next_sequence"]
           /\ result' = IF existing # <<>> THEN "duplicate" ELSE result
    /\ UNCHANGED storeVars
    /\ StepFrame

\* sequence = self.event_repository.next_sequence(event.ticket_number)
StepNextSequence(c) ==
    /\ callers[c].pc = "next_sequence"
    /\ callers' = [callers EXCEPT
           ![c].pc = "insert",
           ![c].sequence = next_sequence(ticket_events, callers[c].event[1].ticket_number)]
    /\ UNCHANGED <<storeVars, result>>
    /\ StepFrame

\* self.event_repository.insert(row), which raises on a duplicate
\* (ticket_number, event_sequence); the exception leaves append
StepInsert(c) ==
    /\ callers[c].pc = "insert"
    /\ LET event == callers[c].event[1]
           r == insert_event(ticket_events, event_row(event, callers[c].sequence))
       IN  /\ ticket_events' = r.ticket_events
           /\ appended' = IF r.raised = None
                          THEN [appended EXCEPT ![event.ticket_number] = Append(@, event.event_id)]
                          ELSE appended
           /\ callers' = IF r.raised = None
                         THEN [callers EXCEPT ![c].pc = "get_by_ticket", ![c].inserted = @ + 1]
                         ELSE [callers EXCEPT ![c].pc = "raised", ![c].conflicts = @ + 1,
                                              ![c].lost = callers[c].sequence]
           /\ result' = IF r.raised = None THEN result ELSE r.raised
    /\ UNCHANGED ticket_current_state
    /\ StepFrame

\* self.event_repository.get_by_ticket(event.ticket_number)
StepGetByTicket(c) ==
    /\ callers[c].pc = "get_by_ticket"
    /\ callers' = [callers EXCEPT
           ![c].pc = "upsert",
           ![c].history = get_by_ticket(ticket_events, callers[c].event[1].ticket_number)]
    /\ UNCHANGED <<storeVars, result>>
    /\ StepFrame

\* self.state_repository.upsert(self._to_state_row(self._replay(rows, ticket)))
StepUpsert(c) ==
    /\ callers[c].pc = "upsert"
    /\ LET ticket_number == callers[c].event[1].ticket_number
       IN  ticket_current_state' =
               [ticket_current_state EXCEPT ![ticket_number] =
                    <<_to_state_row(_replay(callers[c].history, ticket_number))>>]
    /\ callers' = [callers EXCEPT ![c].pc = "returned"]
    /\ result' = "appended"
    /\ UNCHANGED <<ticket_events, appended>>
    /\ StepFrame

\* the caller whose append raised the conflict calls append again with the
\* same event
Retry(c) ==
    /\ callers[c].pc = "raised"
    /\ callers' = [callers EXCEPT ![c].pc = "find_by_event_id"]
    /\ UNCHANGED <<storeVars, result>>
    /\ StepFrame

NextAppend ==
    \E c \in Callers :
        \/ \E event \in ConcurrentEvents : CallAppend(c, event)
        \/ StepFind(c)
        \/ StepNextSequence(c)
        \/ StepInsert(c)
        \/ StepGetByTicket(c)
        \/ StepUpsert(c)
        \/ Retry(c)

SpecAppend == Init /\ [][NextAppend]_vars

----------------------------------------------------------------------------
(* The fan-out bus's operations as actions                                 *)

\* events ever handed to the fan-out
MaxPublished == 3

\* the events published: one per topic of two topics, by event_id
BusEvents ==
    {CanonicalEvent(1, Instant(1, 0), "ticket_issued", "T1", 1, NoAmount),
     CanonicalEvent(2, Instant(1, 0), "coupon_flown", "T1", 1, NoAmount)}

BusEventIds == {event.event_id : event \in BusEvents}

\* FanoutBus([first, second, third]), three sinks of which each raises for
\* the events of its set
ConstructFanout(first, second, third) ==
    /\ result = "init"
    /\ sinks' = <<Sink(first), Sink(second), Sink(third)>>
    /\ result' = "constructed"
    /\ UNCHANGED <<offered, topics, storeVars, settlementVars, dagVars, matchVars, reconVars>>
    /\ UNCHANGED <<auditVars, callerVars, runtimeVars, ingestVars, audit_log, clock>>

\* bus.publish(event)
Publish(event) ==
    /\ sinks # <<>>
    /\ Len(offered) < MaxPublished
    /\ LET r == FanoutBus_publish(sinks, event)
       IN  /\ sinks' = r.buses
           /\ result' = IF r.raised = None THEN "published" ELSE r.raised
    /\ offered' = Append(offered, event)
    /\ UNCHANGED <<topics, storeVars, settlementVars, dagVars, matchVars, reconVars>>
    /\ UNCHANGED <<auditVars, callerVars, runtimeVars, ingestVars, audit_log, clock>>

\* bus.publish_many([first, second])
PublishMany(first, second) ==
    /\ sinks # <<>>
    /\ Len(offered) + 2 <= MaxPublished
    /\ LET r == FanoutBus_publish_many(sinks, <<first, second>>)
       IN  /\ sinks' = r.buses
           /\ result' = IF r.raised = None THEN "published" ELSE r.raised
    /\ offered' = offered \o <<first, second>>
    /\ UNCHANGED <<topics, storeVars, settlementVars, dagVars, matchVars, reconVars>>
    /\ UNCHANGED <<auditVars, callerVars, runtimeVars, ingestVars, audit_log, clock>>

NextFanout ==
    \/ \E first \in SUBSET BusEventIds, second \in SUBSET BusEventIds,
          third \in SUBSET BusEventIds : ConstructFanout(first, second, third)
    \/ \E event \in BusEvents : Publish(event)
    \/ \E first \in BusEvents, second \in BusEvents : PublishMany(first, second)

SpecFanout == Init /\ [][NextFanout]_vars

\* the events published to an InMemoryBus: one of every event type
TopicEvents ==
    {CanonicalEvent(<<"bus", type>>, Instant(1, 0), type, "T1", 1, NoAmount) :
        type \in CanonicalEventType}

\* bus.publish(event) on an InMemoryBus
BusPublish(event) ==
    /\ Len(offered) < MaxPublished
    /\ topics' = InMemoryBus_publish(topics, event)
    /\ offered' = Append(offered, event)
    /\ result' = "published"
    /\ UNCHANGED <<sinks, storeVars, settlementVars, dagVars, matchVars, reconVars>>
    /\ UNCHANGED <<auditVars, callerVars, runtimeVars, ingestVars, audit_log, clock>>

\* bus.publish_many([first, second]) on an InMemoryBus
BusPublishMany(first, second) ==
    /\ Len(offered) + 2 <= MaxPublished
    /\ topics' = InMemoryBus_publish_many(topics, <<first, second>>)
    /\ offered' = offered \o <<first, second>>
    /\ result' = "published_many"
    /\ UNCHANGED <<sinks, storeVars, settlementVars, dagVars, matchVars, reconVars>>
    /\ UNCHANGED <<auditVars, callerVars, runtimeVars, ingestVars, audit_log, clock>>

NextBus ==
    \/ \E event \in TopicEvents : BusPublish(event)
    \/ \E first \in TopicEvents, second \in TopicEvents : BusPublishMany(first, second)

SpecBus == Init /\ [][NextBus]_vars

----------------------------------------------------------------------------
(* The ingest loop as an action                                            *)

\* what the file of a source can hold: one good record, a record with an
\* unknown event_type, a record without ticket_number, or no readable text
Payloads ==
    {Payload(<<[event_type |-> Missing, ticket_number |-> "T1"]>>),
     Payload(<<[event_type |-> "ticket_issued", ticket_number |-> "T1"]>>),
     Payload(<<[event_type |-> "bogus", ticket_number |-> "T1"]>>),
     Payload(<<[event_type |-> "ticket_issued", ticket_number |-> Missing]>>),
     Malformed}

\* ingest_demo(data_dir), the files of data_dir holding payloads; every call
\* starts from a new bus and a new list, so one call is followed
IngestDemo(payloads) ==
    /\ files = <<>>
    /\ files' = payloads
    /\ LET r == ingest_demo(payloads)
       IN  /\ snapshot_bus' = r.topics
           /\ channels' = r.channels
           /\ result' = IF r.raised = None THEN "ingest_demo" ELSE r.raised
    /\ UNCHANGED <<storeVars, settlementVars, dagVars, matchVars, reconVars>>
    /\ UNCHANGED <<auditVars, callerVars, runtimeVars, busVars, audit_log, clock>>

NextIngest ==
    \E payloads \in [1..Len(SOURCE_CHANNELS) -> Payloads] : IngestDemo(payloads)

SpecIngest == Init /\ [][NextIngest]_vars

----------------------------------------------------------------------------
(* Histories of every event type                                           *)

\* the events of one ticket offered for its projection: every event type
\* under every event_id
ReplayEvents ==
    {CanonicalEvent(id, Instant(1, 0), type, "T1", NoCoupon, NoAmount) :
        id \in EventIds, type \in CanonicalEventType}

NextReplay ==
    \/ \E event \in ReplayEvents : AppendEvent(event)
    \/ ResetStore

SpecReplay == Init /\ [][NextReplay]_vars

----------------------------------------------------------------------------
(* The runtime's calls, made one after the other                           *)

\* audit records the runtime ever logs
MaxRuntimeLogs == 13

\* what a call of the runtime leaves in the repositories and in its fields
Become(m) ==
    /\ ticket_events' = m.ticket_events
    /\ ticket_current_state' = m.ticket_current_state
    /\ appended' = m.appended
    /\ coupon_matches' = m.coupon_matches
    /\ match_result' = m.match_result
    /\ agings' = m.agings
    /\ recon_results' = m.recon_results
    /\ recon_summary' = m.recon_summary
    /\ audit_log' = m.audit_log
    /\ logged' = m.logged
    /\ cleared' = m.cleared
    /\ settlements' = m.settlements
    /\ settlement_saga_log' = m.settlement_saga_log
    /\ uuids' = m.uuids
    /\ dag_runs' = m.dag_runs
    /\ task_runs' = m.task_runs
    /\ _seeded' = m.seeded
    /\ _last_recon_summary' = m.last_recon_summary
    /\ UNCHANGED <<audit_store, dag, runner, run_uuids, invoked, classified>>
    /\ UNCHANGED <<callerVars, busVars, ingestVars>>

\* FlightLedgerRuntime(data_dir): the settlement engine gets the audit store
ConstructRuntime ==
    /\ result = "init"
    /\ audit_store' = TRUE
    /\ result' = "constructed"
    /\ UNCHANGED <<settlements, settlement_saga_log, uuids, audit_log, clock>>
    /\ UNCHANGED <<storeVars, dagVars, matchVars, reconVars, otherVars>>

\* runtime.refresh()
RuntimeRefresh ==
    /\ audit_store
    /\ \E m \in {refresh(Memory, TRUE, Now(clock))} :
           /\ Len(m.logged) <= MaxRuntimeLogs
           /\ Become(m)
    /\ result' = "refresh"
    /\ UNCHANGED <<_seed_lock, threads, returned, clock>>

\* runtime.resolve_break(break_id, resolution, notes), the clock having
\* moved by d ticks
RuntimeResolveBreak(break_id, resolution, notes, d) ==
    /\ audit_store
    /\ clock + d <= MaxClock
    /\ \E r \in {runtime_resolve_break(Memory, break_id, resolution, notes, Now(clock + d))} :
           /\ Len(r.memory.logged) <= MaxRuntimeLogs
           /\ Become(r.memory)
           /\ result' = IF r.raised = None THEN "resolve_break" ELSE r.raised
    /\ clock' = clock + d
    /\ UNCHANGED <<_seed_lock, threads, returned>>

\* the ids resolve_break is called with: those of the rows of the coupons of
\* T1 and T2 and one that no row has
RuntimeBreakIds == {recon_row_id(<<t, 1>>) : t \in {"T1", "T2", "T3"}}

\* the resolutions resolve_break is called with
RuntimeResolutions == {"manually_resolved", "unresolved"}

NextRuntimeCalls ==
    \/ ConstructRuntime
    \/ RuntimeRefresh
    \/ \E break_id \in RuntimeBreakIds, resolution \in RuntimeResolutions,
          notes \in ResolutionNotes, d \in {0, 1} :
          RuntimeResolveBreak(break_id, resolution, notes, d)

SpecRuntimeCalls == Init /\ [][NextRuntimeCalls]_vars

----------------------------------------------------------------------------
(* The runtime's calls made by threads at the same time: a thread runs one *)
(* call at a time, a call runs a step at a time, and the steps of the      *)
(* threads interleave                                                      *)

\* calls a thread makes
MaxCalls == 2

\* the read-only queries
Queries == {"ticket_history", "matching_summary", "recon_summary", "settlements"}

\* where a thread is in refresh after its reset and before its completion
AfterReset == {"unseed", "ingest", "recon", "settle", "seeded"}

\* what the query returns, read from the repositories as they are
Answer(query, m) ==
    CASE query = "ticket_history" -> runtime_ticket_history(m, "T1")
      [] query = "matching_summary" -> runtime_matching_summary(m)
      [] query = "recon_summary" -> runtime_recon_summary(m)
      [] query = "settlements" -> runtime_settlements(m, None)

\* thread t moves to pc
Goto(t, pc) == threads' = [threads EXCEPT ![t].pc = pc]

\* thread t calls runtime.refresh()
CallRefresh(t) ==
    /\ audit_store
    /\ threads[t].pc = "idle"
    /\ threads[t].calls < MaxCalls
    /\ threads' = [threads EXCEPT ![t] = [call |-> "refresh", force |-> TRUE, pc |-> "lock",
                                          read |-> <<>>, during |-> FALSE,
                                          calls |-> @.calls + 1]]
    /\ Become(Memory)
    /\ UNCHANGED <<_seed_lock, returned, clock, result>>

\* thread t calls a query
CallQuery(t, query) ==
    /\ audit_store
    /\ threads[t].pc = "idle"
    /\ threads[t].calls < MaxCalls
    /\ threads' = [threads EXCEPT ![t] = [call |-> query, force |-> FALSE, pc |-> "ensure",
                                          read |-> <<>>, during |-> FALSE,
                                          calls |-> @.calls + 1]]
    /\ Become(Memory)
    /\ UNCHANGED <<_seed_lock, returned, clock, result>>

\* ensure_seeded of the query of thread t: _seeded is read without the lock;
\* if it is not set, refresh(force=False) is called
EnsureSeeded(t) ==
    /\ threads[t].pc = "ensure"
    /\ Goto(t, IF _seeded THEN "read" ELSE "lock")
    /\ Become(Memory)
    /\ UNCHANGED <<_seed_lock, returned, clock, result>>

\* with self._seed_lock: thread t gets the lock when no thread holds it, and
\* returns at once, the lock released, if _seeded and not force
AcquireSeedLock(t) ==
    /\ threads[t].pc = "lock"
    /\ _seed_lock = None
    /\ IF _seeded /\ ~threads[t].force
       THEN /\ Goto(t, IF threads[t].call = "refresh" THEN "idle" ELSE "read")
            /\ UNCHANGED _seed_lock
       ELSE /\ Goto(t, "reset")
            /\ _seed_lock' = t
    /\ Become(Memory)
    /\ UNCHANGED <<returned, clock, result>>

\* refresh of thread t: reset_memory_backend() and the five resets
StepReset(t) ==
    /\ threads[t].pc = "reset"
    /\ Goto(t, "unseed")
    /\ \E m \in {reset_engines(reset_memory_backend(Memory))} : Become(m)
    /\ UNCHANGED <<_seed_lock, returned, clock, result>>

\* refresh of thread t: self._seeded = False
StepUnseed(t) ==
    /\ threads[t].pc = "unseed"
    /\ Goto(t, "ingest")
    /\ Become([Memory EXCEPT !.seeded = FALSE])
    /\ UNCHANGED <<_seed_lock, returned, clock, result>>

\* refresh of thread t: self._ingest_pipeline()
StepIngest(t) ==
    /\ threads[t].pc = "ingest"
    /\ Goto(t, "recon")
    /\ \E m \in {_ingest_pipeline(Memory, Now(clock))} : Become(m)
    /\ UNCHANGED <<_seed_lock, returned, clock, result>>

\* refresh of thread t: self._run_matching_recon()
StepRecon(t) ==
    /\ threads[t].pc = "recon"
    /\ Goto(t, "settle")
    /\ \E m \in {_run_matching_recon(Memory, Now(clock))} : Become(m)
    /\ UNCHANGED <<_seed_lock, returned, clock, result>>

\* refresh of thread t: self._bootstrap_settlements()
StepSettle(t) ==
    /\ threads[t].pc = "settle"
    /\ Goto(t, "seeded")
    /\ \E m \in {_bootstrap_settlements(Memory, Now(clock))} : Become(m)
    /\ UNCHANGED <<_seed_lock, returned, clock, result>>

\* refresh of thread t: self._seeded = True and the lock released; a query
\* that called refresh goes on to read
StepSeeded(t) ==
    /\ threads[t].pc = "seeded"
    /\ Goto(t, IF threads[t].call = "refresh" THEN "idle" ELSE "read")
    /\ Become([Memory EXCEPT !.seeded = TRUE])
    /\ _seed_lock' = None
    /\ UNCHANGED <<returned, clock, result>>

\* the query of thread t reads the repositories, no lock held; noted with
\* what it read is whether another thread was in refresh after its reset
\* and before its completion
Read(t) ==
    /\ threads[t].pc = "read"
    /\ threads' = [threads EXCEPT
                      ![t].pc = "idle",
                      ![t].read = <<Answer(threads[t].call, Memory)>>,
                      ![t].during = \E u \in Threads \ {t} : threads[u].pc \in AfterReset]
    /\ Become(Memory)
    /\ UNCHANGED <<_seed_lock, returned, clock, result>>

NextRuntime ==
    \/ ConstructRuntime
    \/ \E t \in Threads : CallRefresh(t)
    \/ \E t \in Threads, query \in Queries : CallQuery(t, query)
    \/ \E t \in Threads : EnsureSeeded(t)
    \/ \E t \in Threads : AcquireSeedLock(t)
    \/ \E t \in Threads : StepReset(t)
    \/ \E t \in Threads : StepUnseed(t)
    \/ \E t \in Threads : StepIngest(t)
    \/ \E t \in Threads : StepRecon(t)
    \/ \E t \in Threads : StepSettle(t)
    \/ \E t \in Threads : StepSeeded(t)
    \/ \E t \in Threads : Read(t)

SpecRuntime == Init /\ [][NextRuntime]_vars

----------------------------------------------------------------------------
(* Claims on the ticket lifecycle store                                    *)

\* C1: a second append of an event_id that is already persisted changes
\* nothing: the repositories stay as they are, exactly one row carries the
\* event_id and the ticket's next event_sequence is not moved.
C1_DuplicateAppendChangesNothing ==
    \A event \in StoreEvents :
        rows_with_event_id(ticket_events, event.event_id) # {} =>
            LET r == append(ticket_events, ticket_current_state, event)
            IN  /\ r.result = "duplicate"
                /\ r.ticket_events = ticket_events
                /\ r.ticket_current_state = ticket_current_state
                /\ Cardinality(rows_with_event_id(r.ticket_events, event.event_id)) = 1
                /\ next_sequence(r.ticket_events, event.ticket_number)
                       = next_sequence(ticket_events, event.ticket_number)

\* C1 witness: a duplicate append was just made on a store that holds rows
\* of both tickets
C1_Witness ==
    /\ result = "duplicate"
    /\ \A t \in Tickets : ticket_events[t] # <<>>

\* C2: for every ticket the event_sequence values of the history are
\* 1..n in list order, and the history lists the events in the order in
\* which append stored them.
C2_SequenceDenseInAppendOrder ==
    \A t \in Tickets :
        LET history == get_by_ticket(ticket_events, t)
        IN  /\ \A i \in 1..Len(history) : history[i].event_sequence = i
            /\ [i \in 1..Len(history) |-> get_history(ticket_events, t)[i].event_id]
                   = appended[t]

\* C2 witness: a ticket with three rows, after a duplicate was refused
C2_Witness ==
    /\ \E t \in Tickets : Len(ticket_events[t]) = 3
    /\ result = "duplicate"

\* the projection of the events of a ticket that occurred at or before as_of,
\* in event_sequence order
projection_as_of(te, ticket_number, as_of) ==
    _replay(SelectSeq(get_by_ticket(te, ticket_number),
                      LAMBDA row : InstantLeq(_event_from_row(row).occurred_at, as_of)),
            ticket_number)

\* C8: get_state_at(T, tau) is the projection of exactly the events of T
\* with occurred_at <= tau, applied in event_sequence order, whether or not
\* occurred_at grows with event_sequence.
C8_StateAtIsProjectionOfPrefix ==
    \A t \in Tickets : \A as_of \in AsOfTimes :
        get_state_at(ticket_events, t, as_of) = projection_as_of(ticket_events, t, as_of)

\* C8 witness: a history whose occurred_at falls and rises again, and an
\* as_of that keeps its first and last event only
C8_Witness ==
    \E t \in Tickets : \E as_of \in AsOfTimes :
        LET history == get_history(ticket_events, t)
        IN  /\ Len(history) = 3
            /\ InstantLeq(history[1].occurred_at, as_of)
            /\ ~InstantLeq(history[2].occurred_at, as_of)
            /\ InstantLeq(history[3].occurred_at, as_of)
            /\ get_state_at(ticket_events, t, as_of).event_count = 2

\* C9: the snapshot get_current_state returns equals the replay of the
\* history (status, event_count, last_event_type, coupon_statuses), so
\* event_count is the length of the history; a ticket without events is
\* unknown with event_count 0.
C9_SnapshotEqualsReplay ==
    \A t \in Tickets :
        LET snapshot == get_current_state(ticket_events, ticket_current_state, t)
            replayed == _replay(get_by_ticket(ticket_events, t), t)
        IN  /\ snapshot.status = replayed.status
            /\ snapshot.event_count = replayed.event_count
            /\ snapshot.last_event_type = replayed.last_event_type
            /\ snapshot.coupon_statuses = replayed.coupon_statuses
            /\ snapshot.event_count = Len(get_history(ticket_events, t))
            /\ get_history(ticket_events, t) = <<>> =>
                   snapshot.status = "unknown" /\ snapshot.event_count = 0

\* C9 witness: a stored snapshot of a ticket with three events, flown after
\* issued, beside a ticket that has no event
C9_Witness ==
    \E t \in Tickets : \E u \in Tickets :
        /\ ticket_current_state[t] # <<>>
        /\ get_current_state(ticket_events, ticket_current_state, t).event_count = 3
        /\ get_current_state(ticket_events, ticket_current_state, t).coupon_statuses[1] = "flown"
        /\ ticket_events[u] = <<>>

----------------------------------------------------------------------------
(* Claims on the settlement saga engine                                    *)

\* the transitions of the state machine after calculate
SagaTransitions ==
    {<<"calculated", "validate", "validated">>,
     <<"validated", "submit", "submitted">>,
     <<"submitted", "confirm", "confirmed">>,
     <<"submitted", "confirm", "disputed">>,
     <<"confirmed", "reconcile", "reconciled">>}
    \cup {<<x, "compensate", "compensated">> :
            x \in {"calculated", "validated", "submitted", "confirmed", "disputed",
                   "reconciled"}}

\* C3: for every settlement the SagaSteps of get_saga, read in order, are a
\* path of the state machine: first none -> calculated by calculate, then
\* each step starts where the one before ended and is a permitted transition.
C3_SagaIsValidPath ==
    \A id \in SettlementIds :
        LET steps == get_saga(settlement_saga_log, id)
        IN  /\ id \in DOMAIN settlements => Len(steps) >= 1
            /\ steps # <<>> =>
                   /\ steps[1].from_status = "none"
                   /\ steps[1].action = "calculate"
                   /\ steps[1].to_status = "calculated"
            /\ \A i \in 2..Len(steps) :
                   /\ steps[i].from_status = steps[i - 1].to_status
                   /\ <<steps[i].from_status, steps[i].action, steps[i].to_status>>
                          \in SagaTransitions

\* C3 witness: two settlements whose steps alternate in the log under one
\* timestamp, one of them submitted, disputed and then compensated
C3_Witness ==
    /\ DOMAIN settlements = SettlementIds
    /\ \E id \in SettlementIds :
           LET steps == get_saga(settlement_saga_log, id)
           IN  /\ Len(steps) = 5
               /\ steps[4].to_status = "disputed"
               /\ steps[5].to_status = "compensated"
    /\ \E i \in 2..Len(settlement_saga_log) - 1 :
           /\ settlement_saga_log[i].settlement_id # settlement_saga_log[i - 1].settlement_id
           /\ settlement_saga_log[i].settlement_id # settlement_saga_log[i + 1].settlement_id
           /\ settlement_saga_log[i].timestamp = settlement_saga_log[i - 1].timestamp

\* a call that is refused: it raises InvalidTransition and leaves the
\* settlements, the saga log and the audit log as they are
RefusedUnchanged(r) ==
    /\ r.result = "InvalidTransition"
    /\ r.settlements = settlements
    /\ r.settlement_saga_log = settlement_saga_log
    /\ r.audit_log = audit_log

\* C4: validate on a settlement that is not calculated, submit on one not
\* validated, confirm on one not submitted and reconcile on one not
\* confirmed are refused with InvalidTransition and change nothing.
C4_InvalidTransitionRefused ==
    \A id \in DOMAIN settlements :
        LET status == settlements[id].status
            t == Now(clock)
        IN  /\ status # "calculated" =>
                   RefusedUnchanged(validate(settlements, settlement_saga_log, audit_log,
                                             id, t, t))
            /\ status # "validated" =>
                   RefusedUnchanged(submit(settlements, settlement_saga_log, audit_log,
                                           id, t, t))
            /\ status # "submitted" =>
                   \A their_amount \in TheirAmounts :
                       RefusedUnchanged(confirm(settlements, settlement_saga_log,
                                                audit_log, id, their_amount, t, t))
            /\ status # "confirmed" =>
                   RefusedUnchanged(reconcile(settlements, settlement_saga_log, audit_log,
                                              id, t, t))

\* C4 witness: a call was just refused while one settlement is disputed,
\* with their_amount recorded, and another is calculated
C4_Witness ==
    /\ result = "InvalidTransition"
    /\ \E id \in DOMAIN settlements :
           /\ settlements[id].status = "disputed"
           /\ settlements[id].their_amount # NoAmount
    /\ \E id \in DOMAIN settlements : settlements[id].status = "calculated"

----------------------------------------------------------------------------
(* Claims on the DAG runner                                                *)

\* the relation R extended by paths of up to n more edges
RECURSIVE PathsWithin(_, _)
PathsWithin(R, n) ==
    IF n = 0 THEN R
    ELSE LET S == PathsWithin(R, n - 1)
         IN  S \cup {<<x[1][1], x[2][2]>> : x \in {y \in S \X R : y[1][2] = y[2][1]}}

TransitiveClosure(R) == PathsWithin(R, Cardinality(R))

\* the pairs <<task, dependency>> that the tasks of a DAG declare
DeclaredDependencies(tasks) ==
    UNION {{<<tasks[i].name, tasks[i].depends_on[j]>> :
               j \in 1..Len(tasks[i].depends_on)} : i \in 1..Len(tasks)}

\* the pairs <<task, dependency>> that the task_run rows of a run record
RecordedDependencies(rows) ==
    UNION {{<<rows[i].task_name, rows[i].depends_on[j]>> :
               j \in 1..Len(rows[i].depends_on)} : i \in 1..Len(rows)}

DeclaredNames(tasks) == {tasks[i].name : i \in 1..Len(tasks)}

\* a task depends on itself, directly or through others
HasCycle(tasks) ==
    \E name \in DeclaredNames(tasks) :
        <<name, name>> \in TransitiveClosure(DeclaredDependencies(tasks))

\* a dependency names a task the DAG does not declare
HasUndeclaredDependency(tasks) ==
    \E e \in DeclaredDependencies(tasks) : e[2] \notin DeclaredNames(tasks)

\* the status a run left for a task, in its task_run row
StatusIn(rows, name) == (CHOOSE i \in 1..Len(rows) : rows[i].task_name = name)

\* C5: in every run, if a task D ends failed or skipped, every task that
\* depends on D, directly or transitively, ends skipped.
C5_FailureSkipsAllDependents ==
    \A run_id \in DOMAIN dag_runs :
        LET rows == get_by_run(task_runs, run_id)
        IN  \A e \in TransitiveClosure(RecordedDependencies(rows)) :
                rows[StatusIn(rows, e[2])].status \in {"failed", "skipped"}
                    => rows[StatusIn(rows, e[1])].status = "skipped"

\* C5 witness: a run of three tasks where the first of a chain failed, the
\* second was skipped for it and the third was skipped for the second
C5_Witness ==
    \E run_id \in DOMAIN dag_runs :
        LET rows == get_by_run(task_runs, run_id)
        IN  /\ Len(rows) = 3
            /\ \E i, j, k \in 1..3 :
                   /\ rows[i].status = "failed"
                   /\ rows[j].status = "skipped"
                   /\ rows[j].depends_on = <<rows[i].task_name>>
                   /\ rows[k].status = "skipped"
                   /\ rows[k].depends_on = <<rows[j].task_name>>

\* the place of a task in an order
PlaceIn(order, name) == CHOOSE k \in 1..Len(order) : order[k] = name

\* C6: for an acyclic DAG with declared dependencies construction leaves a
\* runner whose execution order holds every task exactly once, each after
\* all of its dependencies; run calls the task functions in that order, a
\* task only after all its dependencies were called; the chain A <- B <- C
\* is ordered A, B, C.
C6_OrderRespectsDependencies ==
    /\ (dag # <<>> /\ ~HasCycle(dag[1].tasks) /\ ~HasUndeclaredDependency(dag[1].tasks))
           => runner # <<>>
    /\ runner # <<>> =>
           LET tasks == runner[1].dag.tasks
               order == get_execution_order(runner[1])
           IN  /\ runner[1].dag = dag[1]
               /\ Len(order) = Len(tasks)
               /\ \A i \in 1..Len(tasks) :
                      Cardinality({k \in 1..Len(order) : order[k] = tasks[i].name}) = 1
               /\ \A e \in DeclaredDependencies(tasks) :
                      PlaceIn(order, e[2]) < PlaceIn(order, e[1])
               /\ (/\ Len(tasks) = 3
                   /\ tasks[1].depends_on = <<>>
                   /\ tasks[2].depends_on = <<tasks[1].name>>
                   /\ tasks[3].depends_on = <<tasks[2].name>>)
                      => order = <<tasks[1].name, tasks[2].name, tasks[3].name>>
               /\ result \in {"succeeded", "failed"} =>
                      LET rows == get_by_run(task_runs, RunUuids[run_uuids])
                      IN  /\ invoked = SelectSeq(order,
                                 LAMBDA name : rows[StatusIn(rows, name)].status # "skipped")
                          /\ \A k \in 1..Len(invoked) :
                                 \A e \in DeclaredDependencies(tasks) :
                                     e[1] = invoked[k] =>
                                         \E m \in 1..(k - 1) : invoked[m] = e[2]

\* C6 witness: a run has just called all three task functions of a DAG whose
\* first task waits for the second and the third, the second for the third
C6_Witness ==
    /\ result = "succeeded"
    /\ runner # <<>>
    /\ Len(runner[1].dag.tasks) = 3
    /\ runner[1].dag.tasks[1].depends_on = <<"B", "C">>
    /\ runner[1].dag.tasks[2].depends_on = <<"C">>
    /\ invoked = <<"C", "B", "A">>

\* C7: constructing a runner for a DAG with a dependency cycle, a task that
\* depends on itself or a dependency on an undeclared task raises, leaves no
\* runner to run, and persists no dag_run row, no task_run row and calls no
\* task function.
C7_BadDagRaisesAtConstruction ==
    /\ [](dag # <<>> /\ (HasCycle(dag[1].tasks) \/ HasUndeclaredDependency(dag[1].tasks))
             => runner = <<>> /\ result = "ValueError")
    /\ [][result' = "ValueError" => UNCHANGED <<dag_runs, task_runs, invoked>>]_vars

\* C7 witness: after a run left its rows, a construction was refused for a
\* cycle through two tasks whose dependencies are all declared
C7_Witness ==
    /\ result = "ValueError"
    /\ task_runs # <<>>
    /\ Len(dag[1].tasks) = 3
    /\ ~HasUndeclaredDependency(dag[1].tasks)
    /\ dag[1].tasks[1].depends_on = <<"B">>
    /\ dag[1].tasks[2].depends_on = <<"A">>

----------------------------------------------------------------------------
(* Claims on the coupon matcher                                            *)

\* the keys (ticket_number, coupon_number) of the persisted events of the
\* given types that carry a coupon number
KeysOfTypes(te, event_types) ==
    UNION {{<<t, te[t][i].payload.coupon_number>> :
               i \in {j \in 1..Len(te[t]) :
                         /\ te[t][j].payload.event_type \in event_types
                         /\ te[t][j].payload.coupon_number # NoCoupon}} :
           t \in TicketNumbers}

IssuedKeys == KeysOfTypes(ticket_events, {"ticket_issued", "ticket_reissued"})

FlownKeys == KeysOfTypes(ticket_events, {"coupon_flown"})

\* how many rows carry the status
RowsWithStatus(rows, status) == Cardinality({i \in 1..Len(rows) : rows[i].status = status})

\* five tickets issued on coupon 1, the first three of them flown, and no
\* other key
FiveIssuedThreeFlown ==
    /\ IssuedKeys = {<<TicketsInOrder[i], 1>> : i \in 1..5}
    /\ FlownKeys = {<<TicketsInOrder[i], 1>> : i \in 1..3}

\* C10: run_matching leaves exactly one row per key that has an issued or
\* reissued event or a flown event with a coupon number, and no other row;
\* the row is matched iff the key has both kinds, unmatched_issued iff only
\* issued, unmatched_flown iff only flown; the counts it returns are the
\* numbers of rows of each status; five issued with the first three flown
\* give 3, 2, 0. What the matching run of the last step left is that outcome.
C10_OneRowPerKeyAndCounts ==
    LET r == run_matching(ticket_events, coupon_matches, Now(clock))
        rows == r.coupon_matches
    IN  /\ \A key \in IssuedKeys \cup FlownKeys :
               Cardinality({i \in 1..Len(rows) :
                               <<rows[i].ticket_number, rows[i].coupon_number>> = key}) = 1
        /\ \A i \in 1..Len(rows) :
               LET key == <<rows[i].ticket_number, rows[i].coupon_number>>
               IN  /\ key \in IssuedKeys \cup FlownKeys
                   /\ rows[i].status = "matched" <=> key \in IssuedKeys \cap FlownKeys
                   /\ rows[i].status = "unmatched_issued" <=> key \in IssuedKeys \ FlownKeys
                   /\ rows[i].status = "unmatched_flown" <=> key \in FlownKeys \ IssuedKeys
        /\ r.result = MatchResult(RowsWithStatus(rows, "matched"),
                                  RowsWithStatus(rows, "unmatched_issued"),
                                  RowsWithStatus(rows, "unmatched_flown"))
        /\ FiveIssuedThreeFlown => r.result = MatchResult(3, 2, 0)
        /\ result = "run_matching" =>
               /\ coupon_matches = rows
               /\ match_result = <<r.result>>

\* C10 witness: a matching run has just returned 3, 2, 0 for five tickets
\* issued and the first three flown, among events that give no key
C10_Witness ==
    /\ result = "run_matching"
    /\ FiveIssuedThreeFlown
    /\ match_result = <<MatchResult(3, 2, 0)>>
    /\ Len(coupon_matches) = 5
    /\ Len(ticket_events["T2"]) = 3
    /\ Len(ticket_events["T3"]) = 3

----------------------------------------------------------------------------
(* Claims on suspense aging                                                *)

\* C11: in every state that appends, matching runs and agings reach, a match
\* row is matched if and only if its matched_at is not null.
C11_MatchedIffMatchedAt ==
    \A i \in 1..Len(coupon_matches) :
        coupon_matches[i].status = "matched" <=> coupon_matches[i].matched_at # NoStr

\* C11 witness: after more than thirty agings a matched row stands beside a
\* row in suspense
C11_Witness ==
    /\ agings > SuspenseDays
    /\ \E i \in 1..Len(coupon_matches) :
           /\ coupon_matches[i].status = "matched"
           /\ coupon_matches[i].matched_at # NoStr
    /\ \E i \in 1..Len(coupon_matches) :
           /\ coupon_matches[i].status = "suspense"
           /\ coupon_matches[i].matched_at = NoStr

\* the unmatched status run_matching gave a row, read from the sides it found
OriginalStatus(row) ==
    IF row.issued_at # NoStr /\ row.flown_at # NoStr THEN "matched"
    ELSE IF row.issued_at # NoStr THEN "unmatched_issued"
    ELSE "unmatched_flown"

\* C12: n agings after a matching run, a row that was unmatched has
\* days_in_suspense = n; up to n = 30 it keeps its unmatched status, from
\* n = 31 on it is suspense and stays so.
C12_DaysCountAgings ==
    \A i \in 1..Len(coupon_matches) :
        LET row == coupon_matches[i]
        IN  OriginalStatus(row) # "matched" =>
                /\ row.days_in_suspense = agings
                /\ agings <= 30 => row.status = OriginalStatus(row)
                /\ agings >= 31 => row.status = "suspense"

\* C12 witness: the thirty-first aging has just made an unmatched_issued and
\* an unmatched_flown row suspense with days_in_suspense 31
C12_Witness ==
    /\ result = "age_suspense"
    /\ agings = 31
    /\ \E i, j \in 1..Len(coupon_matches) :
           /\ OriginalStatus(coupon_matches[i]) = "unmatched_issued"
           /\ OriginalStatus(coupon_matches[j]) = "unmatched_flown"
           /\ coupon_matches[i].status = "suspense"
           /\ coupon_matches[j].status = "suspense"
           /\ coupon_matches[i].days_in_suspense = 31

----------------------------------------------------------------------------
(* Claims on the reconciliation engine                                     *)

\* the ordered decision table of classify_break for one call: each rule is
\* its condition and its outcome
DecisionTable(c) ==
    LET known == c.our_amount # NoAmount /\ c.their_amount # NoAmount
        gap == AbsDiff(c.our_amount, c.their_amount)
    IN  <<<<c.duplicate_lift, <<"duplicate_lift", "high", "break", "unresolved">>>>,
          <<~c.flown_exists, <<"timing", "low", "break", "unresolved">>>>,
          <<~c.settlement_exists \/ ~known,
            <<"missing_settlement", "high", "break", "unresolved">>>>,
          <<gap < 10, <<None, "low", "matched", "auto_resolved">>>>,
          <<gap >= 10000, <<"fare_mismatch", "high", "break", "unresolved">>>>,
          <<TRUE, <<"fare_mismatch", "medium", "break", "unresolved">>>>>>

FirstRule(c) ==
    LET table == DecisionTable(c)
        first == CHOOSE i \in 1..Len(table) :
                     table[i][1] /\ \A j \in 1..(i - 1) : ~table[j][1]
    IN  table[first][2]

\* C13: for every combination of inputs classify_break returns the outcome
\* of the first rule of the ordered decision table that applies (duplicate
\* lift, no flown, no settlement or an amount missing, difference below 0.01,
\* difference of 10 or more, otherwise); ours 100.000 against theirs 99.995
\* is matched and auto_resolved.
C13_ClassifyFollowsTable ==
    \A i \in 1..Len(classified) :
        LET c == classified[i]
            k == c.classification
        IN  /\ <<k.break_type, k.severity, k.status, k.resolution>> = FirstRule(c)
            /\ (/\ c.our_amount = 100000 /\ c.their_amount = 99995
                /\ c.flown_exists /\ ~c.duplicate_lift /\ c.settlement_exists)
               => k.status = "matched" /\ k.resolution = "auto_resolved"

C13_Witness ==
    /\ result = "classify_break"
    /\ classified # <<>>
    /\ classified[1].our_amount = 100000 /\ classified[1].their_amount = 99995
    /\ classified[1].flown_exists /\ ~classified[1].duplicate_lift
    /\ classified[1].settlement_exists
    /\ classified[1].classification =
           BreakClassification(None, "low", "matched", "auto_resolved")

\* the store holds the events issued(T1, coupon 1, gross 100), flown(T1,
\* coupon 1) and settlement_due(T1, coupon 1, gross 95) and no other
FareMismatchEvents ==
    /\ [i \in 1..Len(ticket_events["T1"]) |-> ticket_events["T1"][i].payload.event_id]
           = <<<<"i", "T1", 1>>, <<"f", "T1", 1>>, <<"s", "T1", 1>>>>
    /\ \A t \in TicketNumbers \ {"T1"} : ticket_events[t] = <<>>

\* the unresolved breaks a run_full_recon of the present store leaves
UnresolvedBreaksOfRun ==
    get_breaks(run_full_recon(ticket_events, coupon_matches, recon_results,
                              Now(clock)).recon_results,
               "unresolved", None)

\* C14 as stated: with issued at 100, flown and settlement_due at 95 the run
\* leaves exactly one unresolved break, a fare_mismatch of severity high and
\* difference 5.
C14_FareMismatchHigh ==
    FareMismatchEvents =>
        /\ Len(UnresolvedBreaksOfRun) = 1
        /\ UnresolvedBreaksOfRun[1].break_type = "fare_mismatch"
        /\ UnresolvedBreaksOfRun[1].severity = "high"
        /\ UnresolvedBreaksOfRun[1].difference = <<5000>>

\* C14: with issued at 100, flown and settlement_due at 95 the run leaves
\* exactly one unresolved break, a fare_mismatch of difference 5 whose
\* severity is medium (a difference below 10).
C14_FareMismatchMedium ==
    FareMismatchEvents =>
        /\ Len(UnresolvedBreaksOfRun) = 1
        /\ UnresolvedBreaksOfRun[1].break_type = "fare_mismatch"
        /\ UnresolvedBreaksOfRun[1].severity = "medium"
        /\ UnresolvedBreaksOfRun[1].difference = <<5000>>
        /\ result = "run_full_recon" =>
               get_breaks(recon_results, "unresolved", None) = UnresolvedBreaksOfRun

C14_Witness ==
    /\ FareMismatchEvents
    /\ result = "run_full_recon"
    /\ Len(recon_results) = 1
    /\ recon_results[1].status = "break"
    /\ recon_results[1].break_type = "fare_mismatch"
    /\ recon_results[1].difference = <<5000>>
    /\ recon_results[1].resolution = "unresolved"

\* C15: under any sequence of run_full_recon and resolve_break calls, with
\* any id a row has and any resolution value, every recon row whose status
\* is matched has resolution auto_resolved.
C15_MatchedIsAutoResolved ==
    \A i \in 1..Len(recon_results) :
        recon_results[i].status = "matched" => recon_results[i].resolution = "auto_resolved"

\* a matched row that resolve_break was called on
C15_Witness ==
    /\ result = "resolve_break"
    /\ \E i \in 1..Len(recon_results) :
           /\ recon_results[i].status = "matched"
           /\ recon_results[i].resolution_notes = "reviewed"

----------------------------------------------------------------------------
(* Further claims on the settlement engine                                 *)

\* C16: confirm on a submitted settlement records their_amount and moves the
\* settlement to confirmed if and only if |our_amount - their_amount| < 0.01,
\* to disputed otherwise; ours 200 against 195 is disputed, ours 150 against
\* 150 is confirmed.
C16_ConfirmWithinTolerance ==
    \A id \in DOMAIN settlements : \A their_amount \in TheirAmounts :
        settlements[id].status = "submitted" =>
            LET our_amount == settlements[id].our_amount
                t == Now(clock)
                r == confirm(settlements, settlement_saga_log, audit_log, id,
                             their_amount, t, t)
                within == our_amount - their_amount < 10 /\ their_amount - our_amount < 10
            IN  /\ r.result = "ok"
                /\ r.settlements[id].their_amount = their_amount
                /\ r.settlements[id].status \in {"confirmed", "disputed"}
                /\ r.settlements[id].status = "confirmed" <=> within
                /\ our_amount = 200000 /\ their_amount = 195000
                       => r.settlements[id].status = "disputed"
                /\ our_amount = 150000 /\ their_amount = 150000
                       => r.settlements[id].status = "confirmed"

\* one settlement of 200 confirmed with 195 and disputed, another of 150
\* submitted
C16_Witness ==
    /\ result = "ok"
    /\ \E id \in DOMAIN settlements :
           /\ settlements[id].our_amount = 200000
           /\ settlements[id].their_amount = 195000
           /\ settlements[id].status = "disputed"

\* the last SagaStep of a settlement
LastStep(saga, settlement_id) ==
    get_saga(saga, settlement_id)[Len(get_saga(saga, settlement_id))]

\* C17: compensate on a settlement in any status other than compensated
\* moves it to compensated and appends one SagaStep, from the prior status
\* to compensated, whose detail carries the reason; on a compensated
\* settlement it leaves the status and appends no SagaStep.
C17_CompensateOnceThenIdempotent ==
    \A id \in DOMAIN settlements : \A reason \in Reasons :
        LET prior == settlements[id].status
            t == Now(clock)
            r == compensate(settlements, settlement_saga_log, audit_log, id, reason, t, t)
        IN  IF prior # "compensated"
            THEN /\ r.result = "ok"
                 /\ r.settlements[id].status = "compensated"
                 /\ Len(r.settlement_saga_log) = Len(settlement_saga_log) + 1
                 /\ get_saga(r.settlement_saga_log, id) =
                        Append(get_saga(settlement_saga_log, id),
                               LastStep(r.settlement_saga_log, id))
                 /\ \A other \in DOMAIN settlements \ {id} :
                        get_saga(r.settlement_saga_log, other) =
                            get_saga(settlement_saga_log, other)
                 /\ LastStep(r.settlement_saga_log, id).from_status = prior
                 /\ LastStep(r.settlement_saga_log, id).to_status = "compensated"
                 /\ LastStep(r.settlement_saga_log, id).detail.reason = reason
            ELSE /\ r.settlements = settlements
                 /\ r.settlement_saga_log = settlement_saga_log

\* a disputed settlement was compensated, and a second compensate has left it
\* as it was
C17_Witness ==
    /\ result = "unchanged"
    /\ \E id \in DOMAIN settlements :
           /\ settlements[id].status = "compensated"
           /\ LastStep(settlement_saga_log, id).from_status = "disputed"
           /\ LastStep(settlement_saga_log, id).to_status = "compensated"
           /\ LastStep(settlement_saga_log, id).detail.reason = "dispute unresolved"

\* a successful transition has appended exactly one SagaStep
OneSagaStep ==
    /\ Len(settlement_saga_log') = Len(settlement_saga_log) + 1
    /\ SubSeq(settlement_saga_log', 1, Len(settlement_saga_log)) = settlement_saga_log

\* a successful transition has appended exactly one audit record, whose
\* action is settlement_<action> of the SagaStep and whose output_reference
\* is the SagaStep's settlement
OneAuditRecord ==
    /\ Len(audit_log') = Len(audit_log) + 1
    /\ SubSeq(audit_log', 1, Len(audit_log)) = audit_log
    /\ LET step == settlement_saga_log'[Len(settlement_saga_log')]
           record == audit_log'[Len(audit_log')]
       IN  /\ step.action \in {"calculate", "validate", "submit", "confirm",
                               "reconcile", "compensate"}
           /\ record.action = settlement_action(step.action)
           /\ record.output_reference = step.settlement_id

\* the settlement_* audit records that reference a settlement
SettlementAudit(settlement_id) ==
    SelectSeq(get_by_output_reference(audit_log, settlement_id),
              LAMBDA record :
                  record.action \in {"settlement_calculate", "settlement_validate",
                                     "settlement_submit", "settlement_confirm",
                                     "settlement_reconcile", "settlement_compensate"})

\* every settlement has as many SagaSteps as settlement_* audit records
StepsEqualRecords ==
    \A id \in DOMAIN settlements :
        Len(get_saga(settlement_saga_log, id)) = Len(SettlementAudit(id))

\* C18 as stated: each successful transition appends exactly one SagaStep
\* and exactly one audit record settlement_<action> referencing the
\* settlement, so every settlement has as many SagaSteps as settlement_*
\* audit records.
C18_OneStepOneRecord ==
    /\ [][result' = "ok" => OneSagaStep /\ OneAuditRecord]_vars
    /\ []StepsEqualRecords

\* C18: each successful transition appends exactly one SagaStep and, on an
\* engine constructed with an audit store, exactly one audit record
\* settlement_<action> referencing the settlement (without audit store the
\* audit log is left as it is); on an engine with an audit store every
\* settlement has as many SagaSteps as settlement_* audit records.
C18_OneStepOneRecordWithAuditStore ==
    /\ [][result' = "ok" =>
              /\ OneSagaStep
              /\ IF audit_store THEN OneAuditRecord ELSE audit_log' = audit_log]_vars
    /\ [](audit_store => StepsEqualRecords)

\* an engine with an audit store has taken a settlement through calculate,
\* validate and submit: three SagaSteps and three audit records
C18_Witness ==
    /\ audit_store
    /\ result = "ok"
    /\ \E id \in DOMAIN settlements :
           /\ settlements[id].status = "submitted"
           /\ Len(get_saga(settlement_saga_log, id)) = 3
           /\ Len(SettlementAudit(id)) = 3

----------------------------------------------------------------------------
(* Further claims on the DAG runner                                        *)

TerminalStatuses == {"succeeded", "failed", "skipped"}

\* what run leaves and returns when called now with the task functions of
\* raises raising
RunNow(raises) == run(dag_runs, task_runs, runner[1], RunUuids[run_uuids + 1], raises)

\* C19: whatever subset of the task functions raise, run returns a result:
\* a task whose function raised is failed with error_message the exception's
\* string, in the result and in its task_run row; the tasks after it are
\* still taken, so that every task whose dependencies all succeeded is
\* called; and every task ends succeeded, failed or skipped.
C19_RunCapturesEveryFailure ==
    /\ \A i \in 1..Len(task_runs) : task_runs[i].status \in TerminalStatuses
    /\ (runner # <<>> /\ run_uuids < Len(RunUuids)) =>
           \A raises \in SUBSET Range(runner[1]._execution_order) :
               LET order == runner[1]._execution_order
                   r == RunNow(raises)
                   rows == get_by_run(r.task_runs, RunUuids[run_uuids + 1])
               IN  /\ r.status \in {"succeeded", "failed"}
                   /\ Len(r.task_results) = Len(order)
                   /\ Len(rows) = Len(order)
                   /\ \A i \in 1..Len(order) :
                          LET name == order[i]
                              task_result == r.task_results[i]
                              called == name \in Range(r.invoked)
                              dependencies == _task_lookup(runner[1].dag.tasks)[name].depends_on
                          IN  /\ task_result.task_name = name
                              /\ rows[i].task_name = name
                              /\ task_result.status \in TerminalStatuses
                              /\ rows[i].status = task_result.status
                              /\ rows[i].error_message = task_result.error_message
                              /\ (called /\ name \in raises) =>
                                     /\ task_result.status = "failed"
                                     /\ task_result.error_message = ExceptionString(name)
                              /\ (called /\ name \notin raises) =>
                                     task_result.status = "succeeded"
                              /\ task_result.status # "failed" =>
                                     task_result.error_message = None
                              /\ (\A j \in 1..Len(dependencies) :
                                      \E k \in 1..Len(order) :
                                          /\ order[k] = dependencies[j]
                                          /\ r.task_results[k].status = "succeeded")
                                     => called

\* a run in which a task failed with its exception's string recorded and a
\* task after it in the order was still run and succeeded
C19_Witness ==
    /\ result = "failed"
    /\ \E i, j \in 1..Len(task_runs) :
           /\ i < j
           /\ task_runs[i].status = "failed"
           /\ task_runs[i].error_message = ExceptionString(task_runs[i].task_name)
           /\ task_runs[j].status = "succeeded"
           /\ PlaceIn(invoked, task_runs[i].task_name)
                  < PlaceIn(invoked, task_runs[j].task_name)

\* C20: the final status of a run, in the returned result and in the
\* dag_run row, is failed if and only if at least one task ended failed and
\* succeeded otherwise; a run in which a task is skipped is failed.
C20_FailedIffSomeTaskFailed ==
    /\ \A run_id \in DOMAIN dag_runs :
           LET rows == get_by_run(task_runs, run_id)
               some_failed == \E i \in 1..Len(rows) : rows[i].status = "failed"
               some_skipped == \E i \in 1..Len(rows) : rows[i].status = "skipped"
           IN  /\ dag_runs[run_id].status = IF some_failed THEN "failed" ELSE "succeeded"
               /\ some_skipped => dag_runs[run_id].status = "failed"
               /\ result \in {"succeeded", "failed"} => result = dag_runs[run_id].status
    /\ (runner # <<>> /\ run_uuids < Len(RunUuids)) =>
           \A raises \in SUBSET Range(runner[1]._execution_order) :
               LET r == RunNow(raises)
                   some_failed == \E i \in 1..Len(r.task_results) :
                                      r.task_results[i].status = "failed"
               IN  /\ r.status = IF some_failed THEN "failed" ELSE "succeeded"
                   /\ r.dag_runs[RunUuids[run_uuids + 1]].status = r.status

\* a failed run with a failed, a skipped and a succeeded task
C20_Witness ==
    /\ result = "failed"
    /\ \E run_id \in DOMAIN dag_runs :
           /\ dag_runs[run_id].status = "failed"
           /\ {"failed", "skipped", "succeeded"} =
                  {get_by_run(task_runs, run_id)[i].status :
                       i \in 1..Len(get_by_run(task_runs, run_id))}

----------------------------------------------------------------------------
(* Claims on the audit store                                               *)

\* the records log returned since the last reset, in call order
LoggedSinceReset == SubSeq(logged, cleared + 1, Len(logged))

\* C21 (as stated): under every operation the AuditStore exposes, a record
\* once returned by log remains in the log with unchanged fields
C21_RecordsNeverLeave ==
    \A i \in 1..Len(logged) : \E j \in 1..Len(audit_log) : audit_log[j] = logged[i]

\* C21: under log, get_history and get_lineage every record of the log stays
\* in the log with unchanged fields and the log holds exactly the records
\* that log returned since the last reset; reset is the one operation that
\* removes records, and it removes all of them
C21_OnlyResetRemoves ==
    /\ [](/\ Len(audit_log) = Len(LoggedSinceReset)
          /\ \A i \in 1..Len(LoggedSinceReset) :
                 \E j \in 1..Len(audit_log) : audit_log[j] = LoggedSinceReset[i])
    /\ [][/\ result' # "reset" =>
                \A i \in 1..Len(audit_log) :
                    \E j \in 1..Len(audit_log') : audit_log'[j] = audit_log[i]
          /\ result' = "reset" => audit_log' = <<>>]_vars

\* records were cleared by a reset, others were logged after it and a query
\* has run since
C21_Witness ==
    /\ cleared > 0
    /\ Len(logged) > cleared + 1
    /\ result = "get_lineage"
    /\ Len(audit_log) = Len(logged) - cleared

\* the records are in timestamp-ascending order
TimestampAscending(records) ==
    \A i \in 1..Len(records) - 1 : StrLeq(records[i].timestamp, records[i + 1].timestamp)

\* C22: after any sequence of log calls get_history(ticket) returns exactly
\* the records logged with that ticket_number and get_lineage(ref) exactly
\* those logged with that output_reference, each in timestamp-ascending
\* order, which is the order in which they were logged
C22_QueriesReturnLoggedInOrder ==
    /\ \A t \in AuditTickets :
           /\ AuditStore_get_history(audit_log, t)
                  = SelectSeq(LoggedSinceReset, LAMBDA r : r.ticket_number = t)
           /\ TimestampAscending(AuditStore_get_history(audit_log, t))
    /\ \A ref \in AuditReferences :
           /\ AuditStore_get_lineage(audit_log, ref)
                  = SelectSeq(LoggedSinceReset, LAMBDA r : r.output_reference = ref)
           /\ TimestampAscending(AuditStore_get_lineage(audit_log, ref))
    /\ returned # <<>> /\ result \in {"get_history", "get_lineage"} =>
           /\ TimestampAscending(returned[1].records)
           /\ returned[1].records
                  = SelectSeq(LoggedSinceReset,
                              LAMBDA r : IF returned[1].query = "get_history"
                                         THEN r.ticket_number = returned[1].key
                                         ELSE r.output_reference = returned[1].key)

\* get_history has returned two records of one ticket, logged at two
\* different readings of the clock, out of a log that holds others too
C22_Witness ==
    /\ result = "get_history"
    /\ Len(returned[1].records) = 2
    /\ returned[1].records[1].timestamp # returned[1].records[2].timestamp
    /\ Len(audit_log) = 3

----------------------------------------------------------------------------
(* Claims on concurrent appends                                            *)

\* the caller other than c
OtherCaller(c) == CHOOSE d \in Callers : d # c

\* the two callers are appending distinct events to the same ticket
DistinctEventsOneTicket ==
    /\ \A c \in Callers : callers[c].event # <<>>
    /\ callers["A"].event[1].event_id # callers["B"].event[1].event_id
    /\ callers["A"].event[1].ticket_number = callers["B"].event[1].ticket_number

C24_OneRowPerEventId ==
    \A event \in ConcurrentEvents :
        Cardinality(rows_with_event_id(ticket_events, event.event_id)) <= 1

\* both callers appended the same event and both inserted a row
C24_Witness ==
    /\ \A c \in Callers : callers[c].event # <<>> /\ callers[c].inserted = 1
    /\ callers["A"].event = callers["B"].event
    /\ Cardinality(rows_with_event_id(ticket_events, callers["A"].event[1].event_id)) = 2

----------------------------------------------------------------------------
(* Claims on the bus and the ingest loop                                   *)

\* how many times the sink holds the event in the event's topic
TimesHeld(bus, event) ==
    Cardinality({i \in 1..Len(bus.topics[EVENT_TOPIC_MAP(event.event_type)]) :
                     bus.topics[EVENT_TOPIC_MAP(event.event_type)][i] = event})

TimesOffered(event) == Cardinality({i \in 1..Len(offered) : offered[i] = event})

\* C26: FanoutBus.publish forwards each event to all sinks, and a sink whose
\* publish raises for an event does not block the others: every sink that
\* does not raise for an event holds every copy of it that was published
C26_SinkFailureIsIsolated ==
    \A i \in 1..Len(sinks) : \A event \in BusEvents :
        event.event_id \notin sinks[i].raises_on =>
            TimesHeld(sinks[i], event) = TimesOffered(event)

\* the second sink raised for an event that the first sink holds and the
\* third sink, which raises for no event, does not
C26_Witness ==
    /\ Len(sinks) = 3
    /\ sinks[3].raises_on = {}
    /\ \E event \in BusEvents :
           /\ event.event_id \in sinks[2].raises_on
           /\ TimesOffered(event) = 1
           /\ TimesHeld(sinks[1], event) = 1
           /\ TimesHeld(sinks[3], event) = 0

\* the payload of source i parses
Parses(i) == parse(SOURCE_CHANNELS[i].adapter_cls, files[i]).raised = None

\* the events of source i are on the bus and its channel is in the list
Ingested(i) ==
    /\ \A event \in Range(parse(SOURCE_CHANNELS[i].adapter_cls, files[i]).events) :
           \E k \in 1..Len(snapshot_bus[EVENT_TOPIC_MAP(event.event_type)]) :
               snapshot_bus[EVENT_TOPIC_MAP(event.event_type)][k] = event
    /\ \E k \in 1..Len(channels) : channels[k].channel_id = SOURCE_CHANNELS[i].channel_id

\* C27: a payload that fails to parse is fatal for that payload only: the
\* events of every source whose payload parses are published and its
\* channel is listed
C27_ParseFailureIsLocal ==
    files # <<>> => \A i \in 1..Len(SOURCE_CHANNELS) : Parses(i) => Ingested(i)

\* the payload of the first source does not parse, the payloads of all the
\* others do, and nothing of the others is on the bus
C27_Witness ==
    /\ files # <<>>
    /\ ~Parses(1)
    /\ \A i \in 2..Len(SOURCE_CHANNELS) : Parses(i) /\ ~Ingested(i)
    /\ channels = <<>>

----------------------------------------------------------------------------
(* Claims on validation                                                    *)

\* C28: validate on a calculated settlement whose our_amount is <= 0 returns
\* without error and leaves the settlement calculated, the saga log and the
\* audit log as they are; a settlement whose our_amount is <= 0 is never
\* validated, submitted, confirmed, disputed or reconciled
C28_ValidateNonPositiveIsNoOp ==
    \A id \in DOMAIN settlements :
        decimal_of(settlements[id].our_amount) <= 0 =>
            /\ settlements[id].status
                   \notin {"validated", "submitted", "confirmed", "disputed", "reconciled"}
            /\ settlements[id].status = "calculated" =>
                   \A d \in Readings :
                       LET r == validate(settlements, settlement_saga_log, audit_log, id,
                                         Now(clock + d[1]), Now(clock + d[1] + d[2]))
                       IN  /\ r.result = "unchanged"
                           /\ r.settlements = settlements
                           /\ r.settlement_saga_log = settlement_saga_log
                           /\ r.audit_log = audit_log

\* validate has returned without a transition while the one settlement with
\* an our_amount below zero was calculated
C28_Witness ==
    /\ result = "unchanged"
    /\ Len(settlement_saga_log) = 1
    /\ \E id \in DOMAIN settlements :
           /\ settlements[id].our_amount < 0
           /\ settlements[id].status = "calculated"

----------------------------------------------------------------------------
(* Claims on the projected status                                          *)

\* the event types that carry a lifecycle status, and the status of each
LifecycleTypes ==
    {"ticket_issued", "ticket_reissued", "ticket_voided", "coupon_flown", "refund_requested"}

LifecycleStatus(event_type) ==
    CASE event_type = "ticket_issued" -> "issued"
      [] event_type = "ticket_reissued" -> "reissued"
      [] event_type = "ticket_voided" -> "voided"
      [] event_type = "coupon_flown" -> "flown"
      [] event_type = "refund_requested" -> "refunded"

\* the status the claim gives a history: that of its latest lifecycle
\* event; without one, modified if it holds a booking_modified, else unknown
ClaimedStatus(history) ==
    LET lifecycle == {i \in 1..Len(history) : history[i].event_type \in LifecycleTypes}
        latest == CHOOSE i \in lifecycle : \A j \in lifecycle : j <= i
    IN  IF lifecycle # {} THEN LifecycleStatus(history[latest].event_type)
        ELSE IF \E i \in 1..Len(history) : history[i].event_type = "booking_modified"
        THEN "modified"
        ELSE "unknown"

\* C30: for every ticket history the projected status is the one of the
\* latest event among ticket_issued, ticket_reissued, ticket_voided,
\* coupon_flown and refund_requested; booking_modified gives modified only
\* while the status is unknown; settlement_due and interline_claim never
\* change the status
C30_StatusFollowsLatestLifecycleEvent ==
    \A t \in TicketNumbers :
        /\ get_current_state(ticket_events, ticket_current_state, t).status
               = ClaimedStatus(get_history(ticket_events, t))
        /\ _replay(get_by_ticket(ticket_events, t), t).status
               = ClaimedStatus(get_history(ticket_events, t))
        /\ \A event \in ReplayEvents :
               LET before == _replay(get_by_ticket(ticket_events, t), t)
                   after == apply_event(before, event)
               IN  /\ event.event_type \in {"settlement_due", "interline_claim"} =>
                       after.status = before.status
                   /\ event.event_type = "booking_modified" =>
                       after.status = IF before.status = "unknown" THEN "modified"
                                      ELSE before.status

\* a ticket was issued, then modified, then a settlement fell due: its
\* status is still issued
C30_Witness ==
    /\ Len(ticket_events["T1"]) = 3
    /\ ticket_events["T1"][1].event_type = "ticket_issued"
    /\ ticket_events["T1"][2].event_type = "booking_modified"
    /\ ticket_events["T1"][3].event_type = "settlement_due"
    /\ get_current_state(ticket_events, ticket_current_state, "T1").status = "issued"

----------------------------------------------------------------------------
(* Claims on the runtime's calls                                           *)

\* the threads inside refresh, the lock held
InRefresh == {t \in Threads : threads[t].pc \in {"reset"} \cup AfterReset}

\* what the query returns on the runtime seeded and left alone
SeededAnswer(query) ==
    Answer(query, refresh([Memory EXCEPT !.logged = <<>>, !.uuids = 0], TRUE, Now(clock)))

\* C25: at most one thread is inside refresh at a time, holding the lock,
\* and no query has read the repositories while another thread's refresh
\* was between its reset and its completion
C25_QueriesNeverReadDuringRefresh ==
    /\ Cardinality(InRefresh) <= 1
    /\ \A t \in InRefresh : _seed_lock = t
    /\ \A t \in Threads : threads[t].read # <<>> => ~threads[t].during

\* ticket_history read no event of a ticket the seeding holds events of,
\* while the other thread was between its reset and its completion
C25_Witness ==
    \E t \in Threads :
        /\ threads[t].call = "ticket_history"
        /\ threads[t].during
        /\ threads[t].read = <<(<<>>)>>
        /\ SeededAnswer("ticket_history") # <<>>

\* the break_resolved records among the records ever logged
BreakResolved(records) ==
    {i \in 1..Len(records) : records[i].action = "break_resolved"}

\* the recon rows a resolve_break made d ticks from now looks its id up in:
\* those of the repository, or those the seeding makes if it has to seed
RowsAtResolve(d) ==
    IF _seeded THEN recon_results ELSE ensure_seeded(Memory, Now(clock + d)).recon_results

\* C29: resolve_break with a break_id that no recon row has raises KeyError
\* (the code's NotFound), leaves every recon row as it is and writes no
\* break_resolved record, and on a seeded runtime changes nothing at all;
\* with a known id it sets the resolution, the resolution_notes and the
\* resolved_at of the rows with that id and changes no other row
C29_ResolveBreakUnknownChangesNothing ==
    [][\A d \in {0, 1} : \A rows \in {RowsAtResolve(d)} :
          \A break_id \in RuntimeBreakIds, resolution \in RuntimeResolutions,
             notes \in ResolutionNotes :
              RuntimeResolveBreak(break_id, resolution, notes, d) =>
                  IF \A i \in 1..Len(rows) : rows[i].id # break_id
                  THEN /\ result' = "KeyError"
                       /\ recon_results' = rows
                       /\ BreakResolved(logged') = BreakResolved(logged)
                       /\ _seeded => Memory' = Memory
                  ELSE /\ result' = "resolve_break"
                       /\ Len(recon_results') = Len(rows)
                       /\ \A i \in 1..Len(rows) :
                              recon_results'[i] =
                                  IF rows[i].id = break_id
                                  THEN [rows[i] EXCEPT
                                           !.resolution = resolution,
                                           !.resolution_notes = notes,
                                           !.resolved_at = IsoFormat(Now(clock'))]
                                  ELSE rows[i]]_vars

\* a break was resolved and logged, and a later resolve_break of an id that
\* no row has raised KeyError
C29_Witness ==
    /\ result = "KeyError"
    /\ _seeded
    /\ BreakResolved(logged) # {}
    /\ \E i \in 1..Len(recon_results) :
           /\ recon_results[i].resolution_notes \in ResolutionNotes
           /\ recon_results[i].resolution \in RuntimeResolutions
    /\ \E break_id \in RuntimeBreakIds :
           \A i \in 1..Len(recon_results) : recon_results[i].id # break_id

----------------------------------------------------------------------------
(* Claims on one aging call and on the rows of the matcher                 *)

\* the statuses age_suspense ages
AgedStatuses == {"unmatched_issued", "unmatched_flown", "suspense"}

\* C31: one age_suspense call on the rows of any reachable state keeps the
\* number and the keys of the rows, adds exactly 1 to days_in_suspense of
\* every row that is unmatched_issued, unmatched_flown or suspense, leaves
\* every matched row as it is, leaves the escalation note on exactly the aged
\* rows whose new days_in_suspense is above 90, and returns the number of
\* rows it aged; the rows an aging has just left are those of that call
C31_OneAgingCall ==
    LET rows == coupon_matches
        r == age_suspense(rows)
        after == r.coupon_matches
    IN  /\ Len(after) = Len(rows)
        /\ \A i \in 1..Len(rows) :
               /\ after[i].ticket_number = rows[i].ticket_number
               /\ after[i].coupon_number = rows[i].coupon_number
               /\ rows[i].status = "matched" => after[i] = rows[i]
               /\ rows[i].status \in AgedStatuses =>
                      /\ after[i].days_in_suspense = rows[i].days_in_suspense + 1
                      /\ after[i].notes = "Escalation required (>90 days)."
                             <=> after[i].days_in_suspense > 90
                      /\ after[i].notes \in {None, "Escalation required (>90 days)."}
                      /\ after[i].matched_at = rows[i].matched_at
        /\ r.aged = Cardinality({i \in 1..Len(rows) : rows[i].status \in AgedStatuses})
        /\ r.aged = Cardinality({i \in 1..Len(rows) :
                                    after[i].days_in_suspense # rows[i].days_in_suspense})
        /\ result = "age_suspense" =>
               \A i \in 1..Len(rows) :
                   /\ rows[i].status = "matched" =>
                          rows[i].days_in_suspense = 0 /\ rows[i].notes = None
                   /\ rows[i].status \in AgedStatuses =>
                          /\ rows[i].days_in_suspense = agings
                          /\ rows[i].notes = "Escalation required (>90 days)."
                                 <=> agings > 90

\* the ninety-first aging has just attached the escalation note to a row in
\* suspense for 91 days, beside a matched row with no days and no note
C31_Witness ==
    /\ result = "age_suspense"
    /\ agings = 91
    /\ \E i, j \in 1..Len(coupon_matches) :
           /\ coupon_matches[i].status = "suspense"
           /\ coupon_matches[i].days_in_suspense = 91
           /\ coupon_matches[i].notes = "Escalation required (>90 days)."
           /\ coupon_matches[j].status = "matched"
           /\ coupon_matches[j].days_in_suspense = 0
           /\ coupon_matches[j].notes = None

\* C32: in every state that appends, matching runs, resets and agings reach,
\* a row in suspense has days_in_suspense above 30, an unmatched_issued or
\* unmatched_flown row has at most 30, a matched row has 0, and no row has
\* another status
C32_StatusAgreesWithDays ==
    \A i \in 1..Len(coupon_matches) :
        LET row == coupon_matches[i]
        IN  /\ row.status \in AgedStatuses \cup {"matched"}
            /\ row.status = "suspense" => row.days_in_suspense > 30
            /\ row.status \in {"unmatched_issued", "unmatched_flown"} =>
                   row.days_in_suspense <= 30
            /\ row.status = "matched" => row.days_in_suspense = 0

\* after the thirty-first aging the rows without a partner are in suspense at
\* 31 days beside a matched row at 0
C32_Witness ==
    /\ result = "age_suspense"
    /\ agings = 31
    /\ \E i, j, k \in 1..Len(coupon_matches) :
           /\ coupon_matches[i].status = "suspense"
           /\ coupon_matches[i].days_in_suspense = 31
           /\ coupon_matches[i].issued_at # NoStr
           /\ coupon_matches[j].status = "suspense"
           /\ coupon_matches[j].flown_at # NoStr
           /\ coupon_matches[k].status = "matched"
           /\ coupon_matches[k].days_in_suspense = 0

\* rows as a matching run leaves them: no day in suspense and no row in
\* suspense
FreshRows(rows) ==
    \A i \in 1..Len(rows) :
        /\ rows[i].days_in_suspense = 0
        /\ rows[i].status \in {"matched", "unmatched_issued", "unmatched_flown"}
        /\ rows[i].notes = None

\* C33: whatever days the rows have accumulated, run_matching and
\* run_full_recon leave every match row with days_in_suspense 0 and none in
\* suspense; the rows are cleared first, so that the pass over rows above 30
\* days changes none
C33_MatchingStartsRowsAfresh ==
    LET now == Now(clock)
        emptied == match_reset(coupon_matches)
        m == run_matching(ticket_events, coupon_matches, now)
        r == run_full_recon(ticket_events, coupon_matches, recon_results, now)
    IN  /\ FreshRows(m.coupon_matches)
        /\ FreshRows(r.coupon_matches)
        /\ m.coupon_matches = run_matching(ticket_events, emptied, now).coupon_matches
        /\ to_suspense(m.coupon_matches) = m.coupon_matches
        /\ result \in {"run_matching", "run_full_recon"} =>
               /\ coupon_matches = m.coupon_matches
               /\ FreshRows(coupon_matches)

\* rows in suspense for 31 days that a matching run replaces by rows of the
\* same keys at 0 days, unmatched again
C33_Witness ==
    /\ result = "age_suspense"
    /\ agings = 31
    /\ \E i \in 1..Len(coupon_matches) :
           /\ coupon_matches[i].status = "suspense"
           /\ coupon_matches[i].days_in_suspense = 31
           /\ LET after == run_matching(ticket_events, coupon_matches, Now(clock)).coupon_matches
              IN  /\ Len(after) = Len(coupon_matches)
                  /\ after[i].ticket_number = coupon_matches[i].ticket_number
                  /\ after[i].coupon_number = coupon_matches[i].coupon_number
                  /\ after[i].status = "unmatched_issued"
                  /\ after[i].days_in_suspense = 0

----------------------------------------------------------------------------
(* Claims on the rows and the summary of a reconciliation run              *)

\* the (ticket, coupon) keys of the persisted issued and reissued events
\* that have a coupon number
IssuedKeySet ==
    UNION {{<<t, row.payload.coupon_number>> :
                row \in {r \in Range(ticket_events[t]) :
                            /\ r.payload.event_type \in {"ticket_issued", "ticket_reissued"}
                            /\ r.payload.coupon_number # NoCoupon}} :
           t \in TicketNumbers}

RECURSIVE CounterTotal(_)
\* sum(counter.values())
CounterTotal(counter) ==
    IF DOMAIN counter = {} THEN 0
    ELSE LET k == CHOOSE c \in DOMAIN counter : TRUE
         IN  counter[k] + CounterTotal([c \in DOMAIN counter \ {k} |-> counter[c]])

\* the rows are one per issued key of the store and the summary counts them
RowsOfIssuedKeys(rows, summary) ==
    /\ Len(rows) = Cardinality(IssuedKeySet)
    /\ {<<rows[i].ticket_number, rows[i].coupon_number>> : i \in 1..Len(rows)} = IssuedKeySet
    /\ summary.total_matched + summary.total_breaks = Len(rows)
    /\ summary.total_matched
           = Cardinality({i \in 1..Len(rows) : rows[i].status = "matched"})
    /\ summary.total_breaks = Cardinality({i \in 1..Len(rows) : rows[i].status = "break"})
    /\ CounterTotal(summary.breaks_by_type) = summary.total_breaks
    /\ CounterTotal(summary.breaks_by_severity) = summary.total_breaks

\* C34: after run_full_recon the recon repository holds exactly one row for
\* every (ticket, coupon) key that has an issued or reissued event with a
\* coupon number, none for a key that is only flown or settled and none of an
\* earlier run; total_matched and total_breaks add up to the number of rows,
\* and the counters by type and by severity each add up to total_breaks
C34_OneRowPerIssuedKey ==
    LET r == run_full_recon(ticket_events, coupon_matches, recon_results, Now(clock))
    IN  /\ RowsOfIssuedKeys(r.recon_results, r.summary)
        /\ result = "run_full_recon" =>
               /\ recon_results = r.recon_results
               /\ recon_summary = <<r.summary>>
               /\ RowsOfIssuedKeys(recon_results, recon_summary[1])

\* a run over a store that has an issued and a reissued event of T5, of T1
\* only flown and settlement events and of T4 an issued event without coupon
\* number: one row, of T5
C34_Witness ==
    /\ result = "run_full_recon"
    /\ IssuedKeySet = {<<"T5", 1>>}
    /\ Len(ticket_events["T5"]) = 2
    /\ Len(ticket_events["T1"]) = 3
    /\ ticket_events["T4"] # <<>>
    /\ Len(recon_results) = 1
    /\ recon_results[1].ticket_number = "T5"
    /\ recon_summary[1].total_breaks = 1
    /\ recon_summary[1].total_matched = 0
    /\ recon_summary[1].breaks_by_type = [k \in {"timing"} |-> 1]
    /\ recon_summary[1].breaks_by_severity = [k \in {"low"} |-> 1]

\* the number of persisted coupon_flown events of a key
FlownCount(key) ==
    Cardinality({i \in 1..Len(ticket_events[key[1]]) :
                    /\ ticket_events[key[1]][i].payload.event_type = "coupon_flown"
                    /\ ticket_events[key[1]][i].payload.coupon_number = key[2]})

\* whether a settlement_due or interline_claim event of a key is persisted
SettlementPersisted(key) ==
    \E row \in Range(ticket_events[key[1]]) :
        /\ row.payload.event_type \in {"settlement_due", "interline_claim"}
        /\ row.payload.coupon_number = key[2]

\* the row of a reconciliation run follows the number of flown events of
\* its key
RowFollowsLifts(row) ==
    LET lifts == FlownCount(<<row.ticket_number, row.coupon_number>>)
    IN  /\ lifts >= 2 => /\ row.status = "break"
                         /\ row.break_type = "duplicate_lift"
                         /\ row.severity = "high"
                         /\ row.resolution = "unresolved"
        /\ lifts = 1 => row.break_type # "duplicate_lift"
        /\ lifts = 0 => /\ row.status = "break"
                        /\ row.break_type = "timing"
                        /\ row.severity = "low"
                        /\ row.resolution = "unresolved"

\* C35: run_full_recon records an issued key with two or more persisted
\* coupon_flown events as a break (duplicate_lift, high, unresolved), with or
\* without a settlement event and whatever the amounts; a key with exactly one
\* flown event is never duplicate_lift; a key with none is a break (timing,
\* low), with or without a settlement event
C35_LiftsDecideFirst ==
    LET r == run_full_recon(ticket_events, coupon_matches, recon_results, Now(clock))
    IN  /\ \A i \in 1..Len(r.recon_results) : RowFollowsLifts(r.recon_results[i])
        /\ result = "run_full_recon" =>
               \A i \in 1..Len(recon_results) : RowFollowsLifts(recon_results[i])

\* a run over T1 issued, flown twice and settled at the issued amount, and
\* T5 issued, neither flown nor settled: a duplicate lift and a timing break
C35_Witness ==
    /\ result = "run_full_recon"
    /\ FlownCount(<<"T1", 1>>) = 2
    /\ SettlementPersisted(<<"T1", 1>>)
    /\ FlownCount(<<"T5", 1>>) = 0
    /\ ~SettlementPersisted(<<"T5", 1>>)
    /\ \E i, j \in 1..Len(recon_results) :
           /\ recon_results[i].ticket_number = "T1"
           /\ recon_results[i].break_type = "duplicate_lift"
           /\ recon_results[i].our_amount = recon_results[i].their_amount
           /\ recon_results[j].ticket_number = "T5"
           /\ recon_results[j].break_type = "timing"
           /\ recon_results[j].their_amount = NoAmount

----------------------------------------------------------------------------
(* Claims on the rows of a DAG run                                         *)

\* the rows hold one pending task_run row of the run per task of the DAG
OnePendingRowPerTask(rows, tasks, run_id) ==
    /\ Len(get_by_run(rows, run_id)) = Len(tasks)
    /\ \A i \in 1..Len(tasks) :
           \E j \in 1..Len(rows) :
               /\ rows[j].dag_run_id = run_id
               /\ rows[j].task_name = tasks[i].name
               /\ rows[j].status = "pending"
               /\ rows[j].depends_on = tasks[i].depends_on

\* C36 (as stated): once a DAGRunner is constructed for a valid DAG, before
\* run is called, the repositories hold a dag_run row with status running
\* and one pending task_run row per task
C36_ConstructionPersistsRows ==
    result = "constructed" =>
        \E run_id \in DOMAIN dag_runs :
            /\ dag_runs[run_id].status = "running"
            /\ OnePendingRowPerTask(task_runs, runner[1].dag.tasks, run_id)

\* C36: constructing a DAGRunner, for a valid DAG or not, writes no dag_run
\* and no task_run row; it is run that, before it takes its first task,
\* inserts a dag_run row with status running and one pending task_run row per
\* task, the rows that it then updates
C36_RunPersistsRowsNotConstruction ==
    /\ [][result' \in {"constructed", "ValueError"} =>
              UNCHANGED <<dag_runs, task_runs, invoked>>]_vars
    /\ []((runner # <<>> /\ run_uuids < Len(RunUuids)) =>
              LET r == runner[1]
                  run_id == RunUuids[run_uuids + 1]
                  started == insert_running(dag_runs, r, run_id)
                  pending == insert_pending(task_runs, r, run_id, 1)
              IN  /\ run_id \notin DOMAIN dag_runs
                  /\ get_by_run(task_runs, run_id) = <<>>
                  /\ DOMAIN started = DOMAIN dag_runs \cup {run_id}
                  /\ \A id \in DOMAIN dag_runs : started[id] = dag_runs[id]
                  /\ started[run_id].status = "running"
                  /\ started[run_id].dag_name = r.dag.name
                  /\ SubSeq(pending, 1, Len(task_runs)) = task_runs
                  /\ OnePendingRowPerTask(pending, r.dag.tasks, run_id)
                  /\ \A raises \in SUBSET Range(r._execution_order) :
                         LET done == RunNow(raises)
                         IN  /\ DOMAIN done.dag_runs = DOMAIN started
                             /\ Len(done.task_runs) = Len(pending)
                             /\ \A i \in 1..Len(pending) :
                                    /\ done.task_runs[i].id = pending[i].id
                                    /\ done.task_runs[i].task_name = pending[i].task_name
                                    /\ done.task_runs[i].status # "pending")

\* a runner constructed for a DAG of three tasks, two of them with
\* dependencies: no row is written, and run would begin with a running
\* dag_run row and three pending task_run rows
C36_Witness ==
    /\ result = "constructed"
    /\ runner # <<>>
    /\ Len(runner[1].dag.tasks) = 3
    /\ \E i, j \in 1..3 : /\ i # j
                          /\ runner[1].dag.tasks[i].depends_on # <<>>
                          /\ runner[1].dag.tasks[j].depends_on # <<>>
    /\ DOMAIN dag_runs = {}
    /\ task_runs = <<>>
    /\ insert_running(dag_runs, runner[1], RunUuids[1])[RunUuids[1]].status = "running"
    /\ Len(insert_pending(task_runs, runner[1], RunUuids[1], 1)) = 3

----------------------------------------------------------------------------
(* Claims on the ends of a settlement's saga                               *)

\* validate, submit, confirm and reconcile are refused for the settlement
\* and change nothing
ForwardCallsRefused(id) ==
    LET t == Now(clock)
    IN  /\ RefusedUnchanged(validate(settlements, settlement_saga_log, audit_log, id, t, t))
        /\ RefusedUnchanged(submit(settlements, settlement_saga_log, audit_log, id, t, t))
        /\ \A their_amount \in DisputeAmounts :
               RefusedUnchanged(confirm(settlements, settlement_saga_log, audit_log, id,
                                        their_amount, t, t))
        /\ RefusedUnchanged(reconcile(settlements, settlement_saga_log, audit_log, id, t, t))

\* compensate succeeds for the settlement and leaves it compensated
CompensateSucceeds(id) ==
    \A reason \in Reasons :
        LET t == Now(clock)
            r == compensate(settlements, settlement_saga_log, audit_log, id, reason, t, t)
        IN  /\ r.result = "ok"
            /\ r.settlements[id].status = "compensated"

\* compensate returns for the settlement without a change
CompensateChangesNothing(id) ==
    \A reason \in Reasons :
        LET t == Now(clock)
            r == compensate(settlements, settlement_saga_log, audit_log, id, reason, t, t)
        IN  /\ r.result = "unchanged"
            /\ r.settlements = settlements
            /\ r.settlement_saga_log = settlement_saga_log

\* C37: while a compensated settlement exists no call of the engine changes
\* its status or adds a SagaStep to its saga: validate, submit, confirm and
\* reconcile are refused and compensate returns without a change. For a
\* disputed settlement validate, submit, confirm and reconcile are refused,
\* compensate succeeds and the only other status it ever has is compensated.
\* For a reconciled settlement validate, submit, confirm and reconcile are
\* refused and compensate succeeds.
C37_CompensatedIsTerminal ==
    /\ [](\A id \in DOMAIN settlements :
              LET status == settlements[id].status
              IN  /\ status \in {"compensated", "disputed", "reconciled"} =>
                         ForwardCallsRefused(id)
                  /\ status = "compensated" => CompensateChangesNothing(id)
                  /\ status \in {"disputed", "reconciled"} => CompensateSucceeds(id))
    /\ [][\A id \in DOMAIN settlements \cap DOMAIN settlements' :
              LET status == settlements[id].status
              IN  /\ status = "compensated" =>
                         /\ settlements'[id] = settlements[id]
                         /\ get_saga(settlement_saga_log', id)
                                = get_saga(settlement_saga_log, id)
                  /\ status = "disputed" =>
                         settlements'[id].status \in {"disputed", "compensated"}
                  /\ status = "reconciled" =>
                         settlements'[id].status \in {"reconciled", "compensated"}]_vars

\* a settlement that was disputed and then compensated, after a call on it
\* was refused
C37_Witness ==
    /\ result = "InvalidTransition"
    /\ DOMAIN settlements = {"S1"}
    /\ settlements["S1"].status = "compensated"
    /\ LastStep(settlement_saga_log, "S1").from_status = "disputed"
    /\ Len(get_saga(settlement_saga_log, "S1")) = 5

\* C38: after any sequence of engine calls every settlement has at least one
\* SagaStep, the first of them the calculate step, and its status is the
\* to_status of the last SagaStep of its saga
C38_StatusIsLastStep ==
    \A id \in DOMAIN settlements :
        LET saga == get_saga(settlement_saga_log, id)
        IN  /\ saga # <<>>
            /\ saga[1].action = "calculate"
            /\ saga[1].to_status = "calculated"
            /\ LastStep(settlement_saga_log, id).to_status = settlements[id].status
            /\ settlements[id].status
                   \in {"calculated", "validated", "submitted", "confirmed", "disputed",
                        "reconciled", "compensated"}

\* two settlements whose steps alternate in the log: one is submitted after
\* three steps, the other validated after two, and a call was just refused
C38_Witness ==
    /\ result = "InvalidTransition"
    /\ DOMAIN settlements = {"S1", "S2"}
    /\ settlements["S1"].status = "submitted"
    /\ LastStep(settlement_saga_log, "S1").to_status = "submitted"
    /\ settlements["S2"].status = "validated"
    /\ LastStep(settlement_saga_log, "S2").to_status = "validated"
    /\ Len(settlement_saga_log) = 5
    /\ settlement_saga_log[5].settlement_id = "S2"
    /\ settlement_saga_log[4].settlement_id = "S1"
    /\ settlement_saga_log[3].settlement_id = "S2"

----------------------------------------------------------------------------
(* Claims on the in-memory bus                                             *)

\* the topic the routing table is stated to give an event type
StatedTopic(event_type) ==
    IF event_type \in {"ticket_issued", "ticket_reissued", "ticket_voided"}
    THEN "ticket.issued"
    ELSE IF event_type = "coupon_flown" THEN "coupon.flown"
    ELSE IF event_type = "refund_requested" THEN "refund.requested"
    ELSE IF event_type \in {"settlement_due", "interline_claim"} THEN "settlement.due"
    ELSE IF event_type = "booking_modified" THEN "booking.modified"
    ELSE "no topic"

StatedTopics ==
    {"ticket.issued", "coupon.flown", "refund.requested", "settlement.due",
     "booking.modified"}

\* C39: publish appends the event to the list of exactly one topic, the one
\* the routing table gives its event_type, and changes no other list; the
\* lists only grow at their end, each holds the published events of its
\* topic in publish order, and together they hold as many events as were
\* published
C39_OneTopicInPublishOrder ==
    /\ [](/\ DOMAIN topics = StatedTopics
          /\ \A t \in StatedTopics :
                 topics[t] = SelectSeq(offered, LAMBDA event : StatedTopic(event.event_type) = t)
          /\ CounterTotal([t \in DOMAIN topics |-> Len(topics[t])]) = Len(offered)
          /\ \A event \in TopicEvents :
                 InMemoryBus_publish(topics, event)
                     = [topics EXCEPT ![StatedTopic(event.event_type)] = Append(@, event)])
    /\ [][/\ \A t \in DOMAIN topics :
                 /\ Len(topics'[t]) >= Len(topics[t])
                 /\ SubSeq(topics'[t], 1, Len(topics[t])) = topics[t]
          /\ result' = "published" =>
                 LET event == offered'[Len(offered')]
                     topic == StatedTopic(event.event_type)
                 IN  /\ topics'[topic] = Append(topics[topic], event)
                     /\ \A t \in DOMAIN topics \ {topic} : topics'[t] = topics[t]]_vars

\* after three publish calls: ticket_voided then ticket_issued in
\* ticket.issued, in that order, and interline_claim in settlement.due
C39_Witness ==
    /\ result = "published"
    /\ Len(offered) = 3
    /\ Len(topics["ticket.issued"]) = 2
    /\ topics["ticket.issued"][1].event_type = "ticket_voided"
    /\ topics["ticket.issued"][2].event_type = "ticket_issued"
    /\ Len(topics["settlement.due"]) = 1
    /\ topics["settlement.due"][1].event_type = "interline_claim"
    /\ topics["coupon.flown"] = <<>>

----------------------------------------------------------------------------
(* Claims on the calls of the task functions in a run                      *)

\* the task functions called, in order, agree with the statuses of the
\* run's task_run rows: every function is called at most once, and exactly
\* the functions of the tasks none of whose direct dependencies ended failed
\* or skipped
CalledIffDependenciesFine(called, rows) ==
    /\ \A i, j \in 1..Len(called) : called[i] = called[j] => i = j
    /\ \A i \in 1..Len(rows) :
           LET dependencies == rows[i].depends_on
               fine == \A j \in 1..Len(dependencies) :
                           rows[StatusIn(rows, dependencies[j])].status
                               \notin {"failed", "skipped"}
           IN  /\ rows[i].task_name \in Range(called) <=> fine
               /\ rows[i].task_name \in Range(called) <=> rows[i].status # "skipped"

\* A and B without dependencies and C depending on both
FanIn == DAG("close", <<Task("A", <<>>), Task("B", <<>>), Task("C", <<"A", "B">>)>>)

\* C40: in one run every task function is called at most once, and it is
\* called exactly when none of the task's direct dependencies ended failed
\* or skipped; with C depending on A and B and A raising, A is failed, B is
\* succeeded, C is skipped and the function of C is not called, whether or
\* not it would raise
C40_CalledOnceIffDependenciesFine ==
    /\ \A run_id \in DOMAIN dag_runs :
           CalledIffDependenciesFine(invoked, get_by_run(task_runs, run_id))
    /\ (runner # <<>> /\ run_uuids < Len(RunUuids)) =>
           \A raises \in SUBSET Range(runner[1]._execution_order) :
               LET r == RunNow(raises)
                   rows == get_by_run(r.task_runs, RunUuids[run_uuids + 1])
               IN  /\ CalledIffDependenciesFine(r.invoked, rows)
                   /\ (runner[1].dag = FanIn /\ "A" \in raises /\ "B" \notin raises) =>
                          /\ rows[StatusIn(rows, "A")].status = "failed"
                          /\ rows[StatusIn(rows, "B")].status = "succeeded"
                          /\ rows[StatusIn(rows, "C")].status = "skipped"
                          /\ r.invoked = <<"A", "B">>

\* the run of the fan-in in which A raised: A failed, B succeeded, C skipped
\* and only the functions of A and B called
C40_Witness ==
    /\ result = "failed"
    /\ dag = <<FanIn>>
    /\ invoked = <<"A", "B">>
    /\ \E run_id \in DOMAIN dag_runs :
           LET rows == get_by_run(task_runs, run_id)
           IN  /\ rows[StatusIn(rows, "A")].status = "failed"
               /\ rows[StatusIn(rows, "B")].status = "succeeded"
               /\ rows[StatusIn(rows, "C")].status = "skipped"

====
